---- MODULE Spec2Model ----
(***************************************************************************)
(* Adaptive playback replay engine                                         *)
(* (src/youtube_traces/simulation/replayer_2.py).                          *)
(*                                                                         *)
(* Units.  Time and buffered playback are counted in tenths of a second   *)
(* (time.sleep(0.1) is 1), bitrates and bandwidth in kbit/s                *)
(* (0.5 Mbps is 500), sizes in bytes, a transfer's duration dt in ms.      *)
(* Floating point products are computed in this fixed point and rounded    *)
(* toward zero.                                                            *)
(*                                                                         *)
(* Threads.  run_client (main), playback_simulation (clock) and one        *)
(* handle_stream_logic per schedule entry (worker).  A `with state["lock"]`*)
(* block is two steps: the acquisition, and the block's body together      *)
(* with the release.  Code between two blocks that touches only locals is  *)
(* part of the step before it.                                             *)
(*                                                                         *)
(* Time.  The threads read time.time(); the model keeps the clock thread's *)
(* last reading (last_real_time, relative to start_time) and lets each     *)
(* sleep last any whole number of tenths >= 1.  Readings are assumed       *)
(* monotone.  MaxTime is the horizon of the bounded run.  A worker's reading *)
(* of time.time() is taken at the resolution of the clock thread's: it is   *)
(* the clock's latest reading.                                             *)
(*                                                                         *)
(* Floating point.  The final metrics divide and square, so their          *)
(* arithmetic is binary floating point with round-to-nearest-even, as a     *)
(* Python float is, with a mantissa of MantBits bits instead of 53.         *)
(***************************************************************************)
EXTENDS Integers, Sequences, FiniteSets, TLC

\* ------------------------------------------------------------------ bounds
MaxTime == 3
MaxDelta == 2
MaxExtra == 1
MantBits == 5
MaxFreeFeeds == 2

\* --------------------------------------------------------------- constants
CHUNK_SIZE == 4096
PREFETCH_TARGET == 50
PANIC_THRESHOLD == 50
MAX_BUFFER_ACTIVE == 200
TP_WINDOW_LEN == 10
BITRATE_LADDER == <<500, 1000, 2500, 5000, 8000>>
INITIAL_BANDWIDTH_EST == 2500
EST_FLOOR == 100
EST_CEILING == 100000
TICK_SLEEP == 1
PAYLOAD_MAX == 1048576
SERVER_RECV_SIZE == 1024
GHOST_MIN_SPAN == 1
GHOST_MIN_BYTES == 1000

\* ----------------------------------------------------------------- helpers
Min(a, b) == IF a < b THEN a ELSE b
Max(a, b) == IF a > b THEN a ELSE b

RECURSIVE SeqMin(_)
SeqMin(s) == IF Len(s) = 1 THEN s[1] ELSE Min(s[1], SeqMin(Tail(s)))

Range(s) == {s[i] : i \in 1..Len(s)}

\* ---------------------------------------------------------------- schedule
\* A stream plan: stream_id "<base>_<frag>", playback_start_sec, events.
Ev(action, dur, bg) == [action |-> action, video_duration_sec |-> dur, is_background |-> bg]
\* A chunk event without "video_duration_sec", and one without "action".
EvNoDuration(action, bg) == [action |-> action, is_background |-> bg]
EvNoAction(dur, bg) == [video_duration_sec |-> dur, is_background |-> bg]
Plan(base, frag, start, events) ==
    [base |-> base, frag |-> frag, playback_start_sec |-> start, events |-> events]

\* Two videos listed out of play order; video 1 has a prefetch chunk.
ScheduleSwipe ==
    << Plan(1, 0, 2, << Ev("download", 3, TRUE), Ev("download", 20, FALSE) >>),
       Plan(0, 0, 0, << Ev("seek", 0, FALSE), Ev("download", 3, FALSE) >>) >>

\* One video split into two fragments (the second fragment's own
\* playback_start_sec is not the one recorded); one chunk has a negative
\* video_duration_sec.
ScheduleFragments ==
    << Plan(0, 0, 0, << Ev("download", 20, FALSE) >>),
       Plan(0, 1, 2, << Ev("download", 0 - 3, FALSE), Ev("download", 3, FALSE) >>) >>

\* Two fragments whose first event is malformed and whose second is a
\* well-formed chunk: one lacks "video_duration_sec", the other "action".
ScheduleMalformed ==
    << Plan(0, 0, 0, << EvNoDuration("download", FALSE), Ev("download", 3, FALSE) >>),
       Plan(0, 1, 0, << EvNoAction(3, FALSE), Ev("download", 3, FALSE) >>) >>

Schedules == {ScheduleSwipe, ScheduleFragments, ScheduleMalformed}

\* A swipe with one short chunk per video, for the runs followed past the
\* horizon; video 1 has nothing to prefetch and waits to become active.
ScheduleShort ==
    << Plan(0, 0, 0, << Ev("download", 3, FALSE) >>),
       Plan(1, 0, 2, << Ev("download", 3, FALSE) >>) >>

\* Three videos, the last two due at the earliest tick; the first two have
\* nothing to download, the last one's worker waits at the gate until its
\* video is active.
ScheduleCatchUp ==
    << Plan(0, 0, 0, << Ev("seek", 0, FALSE) >>),
       Plan(1, 0, 1, << Ev("seek", 0, FALSE) >>),
       Plan(2, 0, 1, << Ev("download", 3, FALSE) >>) >>

\* One video in two fragments whose chunks, all of 11 s, are long enough to
\* fill the active buffer.
ScheduleCeiling ==
    << Plan(0, 0, 0, << Ev("download", 110, FALSE), Ev("download", 110, FALSE) >>),
       Plan(0, 1, 0, << Ev("download", 110, FALSE) >>) >>

get_sort_key(s) == s.base

RECURSIVE InsertByKey(_, _)
InsertByKey(sorted, x) ==
    IF sorted = <<>> THEN <<x>>
    ELSE IF get_sort_key(Head(sorted)) <= get_sort_key(x)
         THEN <<Head(sorted)>> \o InsertByKey(Tail(sorted), x)
         ELSE <<x>> \o sorted

\* list.sort(key=get_sort_key): stable.
RECURSIVE SortStreams(_)
SortStreams(s) ==
    IF s = <<>> THEN <<>>
    ELSE InsertByKey(SortStreams(SubSeq(s, 1, Len(s) - 1)), s[Len(s)])

RECURSIVE BuildStreamOrder(_, _)
BuildStreamOrder(s, order) ==
    IF s = <<>> THEN order
    ELSE BuildStreamOrder(Tail(s),
            IF Head(s).base \in Range(order) THEN order
            ELSE Append(order, Head(s).base))

FirstWithBase(s, b) == s[CHOOSE i \in 1..Len(s) :
                            /\ s[i].base = b
                            /\ \A j \in 1..(i - 1) : s[j].base # b]

BuildSwipeMap(s) ==
    [b \in {s[i].base : i \in 1..Len(s)} |-> FirstWithBase(s, b).playback_start_sec]

Sid(plan) == <<plan.base, plan.frag>>

IndexOf(order, b) == CHOOSE i \in 1..Len(order) : order[i] = b

\* ev["action"] raises KeyError on an event without the field
has_action(events) == \A i \in 1..Len(events) : "action" \in DOMAIN events[i]

Downloads(events) ==
    SelectSeq(events, LAMBDA ev : "action" \in DOMAIN ev /\ ev.action = "download")

\* ------------------------------------------------------------------- state
VARIABLES
    streams, stream_order, swipe_map,
    lock,
    total_bytes, buffers, stall_time,
    active_video_index, active_base_id,
    throughputs, bitrate_timeseries, buffer_timeseries,
    app_bandwidth_est, tp_window, last_stall_time,
    per_stream_bytes, per_stream_first_ts, per_stream_last_ts,
    stop_playback,
    mainPc, spawned, joined, report,
    clockPc, last_real_time, delta, sim_time,
    wpc, wchunk, wactive, wbitrate, wsize, wrecvd,
    xN, xcPc, xsPc, c2s, s2c, xsData, xsBytesToSend, xsSent, xcRecvd, xFault,
    twin, fed

schedVars == <<streams, stream_order, swipe_map>>
stateVars == <<total_bytes, buffers, stall_time, active_video_index, active_base_id,
               throughputs, bitrate_timeseries, buffer_timeseries,
               app_bandwidth_est, tp_window, last_stall_time, per_stream_bytes,
               per_stream_first_ts, per_stream_last_ts>>
mainVars == <<mainPc, spawned, joined, report>>
clockVars == <<clockPc, last_real_time, delta, sim_time>>
workerVars == <<wpc, wchunk, wactive, wbitrate, wsize, wrecvd>>
estVars == <<twin, fed>>
xferVars == <<xN, xcPc, xsPc, c2s, s2c, xsData, xsBytesToSend, xsSent, xcRecvd, xFault>>
vars == <<schedVars, lock, stateVars, stop_playback, mainVars, clockVars,
          workerVars, xferVars, estVars>>

Free == <<"free", 0>>
ClockThread == <<"clock", 0>>
WorkerThread(w) == <<"worker", w>>

Workers == 1..Len(streams)
base_id(w) == streams[w].base
\* Positions in stream_order count from 0, as list.index does.
my_idx(w) == IndexOf(stream_order, base_id(w)) - 1
chunks(w) == Downloads(streams[w].events)


\* ----------------------------------------------------- bandwidth estimator
push_window_unbounded(window, tp_mbps) == Append(window, tp_mbps)

\* tp_window.append(tp_mbps); if len(tp_window) > TP_WINDOW_LEN: tp_window.pop(0)
push_window(window, tp_mbps) ==
    LET w == Append(window, tp_mbps)
    IN IF Len(w) > TP_WINDOW_LEN THEN Tail(w) ELSE w

\* safe_floor = min(tp_window) if tp_window else tp_mbps, after the push
safe_floor(window, tp_mbps) == IF window # <<>> THEN SeqMin(window) ELSE tp_mbps

active_buffer_of_sampler(bufs, active_id, sampled_id) == bufs[sampled_id]

\* active_id = state["active_base_id"]; buf_active = state["buffers"].get(active_id, 0.0)
\* (sampled_id, the video whose chunk gave the sample, is not looked at)
active_buffer(bufs, active_id, sampled_id) == bufs[active_id]

\* alpha, in tenths
ewma_alpha(buf_active) ==
    IF buf_active < 30 THEN 1 ELSE IF buf_active < 100 THEN 2 ELSE 3

\* risk_factor, in hundredths
risk_factor(buf_active) ==
    IF buf_active < 20 THEN 70
    ELSE IF buf_active < 50 THEN 85
    ELSE IF buf_active < 120 THEN 100
    ELSE 110

buffer_aware_est(current_est, floor, buf_active, tp_mbps) ==
    LET alpha == ewma_alpha(buf_active)
        ewma_est == ((10 - alpha) * current_est + alpha * tp_mbps) \div 10
        blended_est == (ewma_est + floor) \div 2
    IN (blended_est * risk_factor(buf_active)) \div 100

stall_clamp_ignored(est, tp_mbps, new_stall) == est

\* if state["stall_time"] > last_stall: est = min(est, tp_mbps * 0.8)
stall_clamp(est, tp_mbps, new_stall) ==
    IF new_stall THEN Min(est, (tp_mbps * 8) \div 10) ELSE est

sanity_clamp_ceiling_only(est) == Min(est, EST_CEILING)

sanity_clamp(est) == Max(EST_FLOOR, Min(est, EST_CEILING))

\* "app_bandwidth_est": 2.5, "tp_window": [], "last_stall_time": 0.0: the
\* estimator's part of the state dict that run number `run` builds.
fresh_estimator_state_carried_over(run) ==
    [app_bandwidth_est |-> INITIAL_BANDWIDTH_EST,
     tp_window |-> IF run = 1 THEN <<>> ELSE <<EST_FLOOR>>,
     last_stall_time |-> 0]

fresh_estimator_state(run) ==
    [app_bandwidth_est |-> INITIAL_BANDWIDTH_EST,
     tp_window |-> <<>>,
     last_stall_time |-> 0]

update_bandwidth_estimate_forgets_stall(current_est, window, last_stall, stall, buf_active, tp_mbps) ==
    LET w == push_window(window, tp_mbps)
        new_stall == stall > last_stall
        est == stall_clamp(buffer_aware_est(current_est, safe_floor(w, tp_mbps),
                                            buf_active, tp_mbps),
                           tp_mbps, new_stall)
    IN [app_bandwidth_est |-> sanity_clamp(est),
        tp_window |-> w,
        last_stall_time |-> last_stall]

\* The estimator's writes, given what it reads of the state.
update_bandwidth_estimate(current_est, window, last_stall, stall, buf_active, tp_mbps) ==
    LET w == push_window(window, tp_mbps)
        new_stall == stall > last_stall
        est == stall_clamp(buffer_aware_est(current_est, safe_floor(w, tp_mbps),
                                            buf_active, tp_mbps),
                           tp_mbps, new_stall)
    IN [app_bandwidth_est |-> sanity_clamp(est),
        tp_window |-> w,
        last_stall_time |-> IF new_stall THEN stall ELSE last_stall]

\* ------------------------------------------------------------------ dicts
\* A dict is the sequence of its <<key, value>> items in insertion order.
dict_keys(d) == [i \in 1..Len(d) |-> d[i][1]]
has_key(d, k) == \E i \in 1..Len(d) : d[i][1] = k
\* d.get(k, default)
get(d, k, default) ==
    IF has_key(d, k) THEN d[CHOOSE i \in 1..Len(d) : d[i][1] = k][2] ELSE default
\* d[k] = v
set_item(d, k, v) ==
    IF has_key(d, k) THEN [i \in 1..Len(d) |-> IF d[i][1] = k THEN <<k, v>> ELSE d[i]]
    ELSE Append(d, <<k, v>>)
\* if k not in d: d[k] = v
set_default(d, k, v) == IF has_key(d, k) THEN d ELSE Append(d, <<k, v>>)

\* ---------------------------------------------------------- floating point
\* A float is <<m, e>>, standing for m * 2^e, with m odd and below
\* 2^MantBits, or <<0, 0>>.
RECURSIVE Pow2(_)
Pow2(k) == IF k = 0 THEN 1 ELSE 2 * Pow2(k - 1)

RECURSIVE bit_length(_)
bit_length(m) == IF m = 0 THEN 0 ELSE 1 + bit_length(m \div 2)

RECURSIVE fl_normal(_, _)
fl_normal(m, e) == IF m % 2 = 0 THEN fl_normal(m \div 2, e + 1) ELSE <<m, e>>

\* m * 2^e rounded to the nearest float, ties to even
fl_round(m, e) ==
    IF m = 0 THEN <<0, 0>>
    ELSE LET s == bit_length(m) - MantBits
         IN IF s <= 0 THEN fl_normal(m, e)
            ELSE LET q == m \div Pow2(s)
                     r == m % Pow2(s)
                     half == Pow2(s - 1)
                 IN fl_normal(IF r > half \/ (r = half /\ q % 2 = 1) THEN q + 1 ELSE q,
                              e + s)

FL_ONE == <<1, 0>>
fl_int(n) == fl_round(n, 0)
fl_mul(a, b) == fl_round(a[1] * b[1], a[2] + b[2])

\* An operand more than 2 * MantBits + 2 binary places below the other is
\* below a quarter of its last place.
fl_add(a, b) ==
    IF a[1] = 0 THEN b
    ELSE IF b[1] = 0 THEN a
    ELSE IF a[2] - b[2] > 2 * MantBits + 2 THEN a
    ELSE IF b[2] - a[2] > 2 * MantBits + 2 THEN b
    ELSE LET e == Min(a[2], b[2])
         IN fl_round(a[1] * Pow2(a[2] - e) + b[1] * Pow2(b[2] - e), e)

\* a / b for b # 0: the quotient to 2 * MantBits + 2 places, and one more
\* place that is set when the division is inexact.
fl_div(a, b) ==
    IF a[1] = 0 THEN <<0, 0>>
    ELSE LET k == 2 * MantBits + 2
             q == (a[1] * Pow2(k)) \div b[1]
             r == (a[1] * Pow2(k)) % b[1]
         IN IF r = 0 THEN fl_round(q, a[2] - b[2] - k)
            ELSE fl_round(2 * q + 1, a[2] - b[2] - k - 1)

fl_positive(a) == a[1] > 0
\* a <= b, by exact comparison of the two values
fl_leq(a, b) ==
    LET e == Min(a[2], b[2])
    IN IF a[2] - b[2] > 2 * MantBits + 2 THEN a[1] = 0
       ELSE IF b[2] - a[2] > 2 * MantBits + 2 THEN a[1] = 0 \/ b[1] > 0
       ELSE a[1] * Pow2(a[2] - e) <= b[1] * Pow2(b[2] - e)

\* ----------------------------------------------------------- final metrics
survives_ghost_filter_inclusive(b_count, dur) ==
    dur >= GHOST_MIN_SPAN /\ b_count >= GHOST_MIN_BYTES

\* if dur > 0.1 and b_count > 1000
survives_ghost_filter(b_count, dur) == dur > GHOST_MIN_SPAN /\ b_count > GHOST_MIN_BYTES

\* (b_count * 8) / (dur * 1e6), here in bits per tenth of a second: one
\* rounded division of the exact bit count by the exact span.
stream_rate(b_count, dur) == fl_div(fl_int(b_count * 8), fl_int(dur))

\* The loop over per_stream_bytes.items(): the credited streams in the order
\* of their first credit (an entry of the defaultdict is created, with the
\* two timestamps, by a worker's first credit).
RECURSIVE per_stream_rates(_, _, _, _)
per_stream_rates(sids, bytes, first_ts, last_ts) ==
    IF sids = <<>> THEN <<>>
    ELSE LET sid == Head(sids)
             dur == get(last_ts, sid, 0) - get(first_ts, sid, 0)
             rest == per_stream_rates(Tail(sids), bytes, first_ts, last_ts)
         IN IF survives_ghost_filter(bytes[sid], dur)
            THEN <<<<sid, stream_rate(bytes[sid], dur)>>>> \o rest
            ELSE rest

\* sum(...): left to right from 0
RECURSIVE fl_sum(_, _)
fl_sum(xs, acc) == IF xs = <<>> THEN acc ELSE fl_sum(Tail(xs), fl_add(acc, Head(xs)))

jain_num(rates) == LET s == fl_sum(rates, <<0, 0>>) IN fl_mul(s, s)

jain_den(rates) ==
    fl_mul(fl_int(Len(rates)),
           fl_sum([i \in 1..Len(rates) |-> fl_mul(rates[i], rates[i])], <<0, 0>>))

\* fairness = 1.0; if len(per_stream_rates) >= 2: num / den if den > 0 else 0
fairness_index(rates) ==
    IF Len(rates) >= 2
    THEN IF fl_positive(jain_den(rates)) THEN fl_div(jain_num(rates), jain_den(rates))
         ELSE <<0, 0>>
    ELSE FL_ONE

\* ------------------------------------------------------------ ABR decision
RECURSIVE ladder_scan(_, _, _)
ladder_scan(i, target, selected) ==
    IF i > Len(BITRATE_LADDER) THEN selected
    ELSE IF BITRATE_LADDER[i] <= target
         THEN ladder_scan(i + 1, target, BITRATE_LADDER[i])
         ELSE selected

abr_target_optimistic(est, buf, is_active) == (est * 9) \div 10

\* target = est * 0.9, or est * 0.5 (active with buf < 5.0, or not active)
abr_target(est, buf, is_active) ==
    IF is_active
    THEN IF buf < 50 THEN (est * 5) \div 10 ELSE (est * 9) \div 10
    ELSE (est * 5) \div 10

get_abr_decision_no_panic(est, buf, buf_active, is_active) ==
    ladder_scan(1, abr_target(est, buf, is_active), BITRATE_LADDER[1])

get_abr_decision(est, buf, buf_active, is_active) ==
    IF ~is_active /\ buf_active < PANIC_THRESHOLD
    THEN BITRATE_LADDER[1]
    ELSE ladder_scan(1, abr_target(est, buf, is_active), BITRATE_LADDER[1])

size_bytes_lowest_rung(duration, bitrate) == (duration * BITRATE_LADDER[1] * 25) \div 2

\* size_bytes = int((duration * bitrate * 1e6) / 8)
size_bytes(duration, bitrate) == (duration * bitrate * 25) \div 2

\* -------------------------------------------------------------------- Init
XferIdle ==
    /\ xN = 0 /\ xcPc = "off" /\ xsPc = "off"
    /\ c2s = <<>> /\ s2c = 0 /\ xsData = <<>> /\ xsBytesToSend = 0
    /\ xsSent = 0 /\ xcRecvd = 0
    /\ xFault = {}

InitSchedule(schedule) ==
    /\ streams = SortStreams(schedule)
    /\ stream_order = BuildStreamOrder(SortStreams(schedule), <<>>)
    /\ swipe_map = BuildSwipeMap(SortStreams(schedule))

\* No second estimator is being fed.
EstIdle == twin = fresh_estimator_state(2) /\ fed = 0

InitState(schedule) ==
    /\ lock = Free
    /\ total_bytes = 0
    /\ buffers = [b \in {schedule[i].base : i \in 1..Len(schedule)} |-> 0]
    /\ stall_time = 0
    /\ active_video_index = 0
    /\ active_base_id = BuildStreamOrder(SortStreams(schedule), <<>>)[1]
    /\ throughputs = <<>>
    /\ bitrate_timeseries = <<>>
    /\ buffer_timeseries = [len |-> 0, last |-> <<0, 0>>]
    /\ app_bandwidth_est = fresh_estimator_state(1).app_bandwidth_est
    /\ tp_window = fresh_estimator_state(1).tp_window
    /\ last_stall_time = fresh_estimator_state(1).last_stall_time
    /\ per_stream_bytes = [s \in {Sid(schedule[i]) : i \in 1..Len(schedule)} |-> 0]
    /\ per_stream_first_ts = <<>>
    /\ per_stream_last_ts = <<>>

InitThreads(schedule) ==
    /\ stop_playback = FALSE
    /\ mainPc = "start_playback"
    /\ spawned = 0
    /\ joined = 0
    /\ report = [written |-> FALSE]
    /\ clockPc = "unborn"
    /\ last_real_time = 0
    /\ delta = 0
    /\ sim_time = 0
    /\ wpc = [w \in 1..Len(schedule) |-> "unborn"]
    /\ wchunk = [w \in 1..Len(schedule) |-> 1]
    /\ wactive = [w \in 1..Len(schedule) |-> FALSE]
    /\ wbitrate = [w \in 1..Len(schedule) |-> 0]
    /\ wsize = [w \in 1..Len(schedule) |-> 0]
    /\ wrecvd = [w \in 1..Len(schedule) |-> 0]

InitRun(schedule) ==
    /\ InitSchedule(schedule)
    /\ InitState(schedule)
    /\ InitThreads(schedule)

Init == (\E schedule \in Schedules : InitRun(schedule)) /\ XferIdle /\ EstIdle

\* ------------------------------------------------------- run_client (main)
Terminated == {"done", "crashed"}

StartPlayback ==
    /\ mainPc = "start_playback"
    /\ clockPc' = "check"
    /\ last_real_time' = 0
    /\ mainPc' = "spawn"
    /\ UNCHANGED <<schedVars, lock, stateVars, stop_playback, spawned, joined, report,
                   delta, sim_time, workerVars, xferVars, estVars>>

SpawnWorker ==
    /\ mainPc = "spawn"
    /\ spawned < Len(streams)
    /\ wpc' = [wpc EXCEPT ![spawned + 1] = "init"]
    /\ spawned' = spawned + 1
    /\ mainPc' = IF spawned + 1 = Len(streams) THEN "join" ELSE "spawn"
    /\ UNCHANGED <<schedVars, lock, stateVars, stop_playback, joined, report, clockVars,
                   wchunk, wactive, wbitrate, wsize, wrecvd, xferVars, estVars>>

JoinWorker ==
    /\ mainPc = "join"
    /\ joined < Len(streams)
    /\ wpc[joined + 1] \in Terminated
    /\ joined' = joined + 1
    /\ UNCHANGED <<schedVars, lock, stateVars, stop_playback, mainPc, spawned, report,
                   clockVars, workerVars, xferVars, estVars>>

SetStop ==
    /\ mainPc = "join"
    /\ joined = Len(streams)
    /\ stop_playback' = TRUE
    /\ mainPc' = "join_clock"
    /\ UNCHANGED <<schedVars, lock, stateVars, spawned, joined, report, clockVars,
                   workerVars, xferVars, estVars>>

\* total_duration = max(1e-6, time.time() - state["start_time"]), read as the
\* join returns; the main thread's reading of time.time() is the clock
\* thread's latest (start_time is 0).
total_duration(now) == now

\* playback_thread.join(timeout=1.0) returns when the thread has ended ...
JoinClock ==
    /\ mainPc = "join_clock"
    /\ clockPc = "done"
    /\ mainPc' = "aggregate"
    /\ report' = [written |-> FALSE, total_duration |-> total_duration(last_real_time)]
    /\ UNCHANGED <<schedVars, lock, stateVars, stop_playback, spawned, joined,
                   clockVars, workerVars, xferVars, estVars>>

\* ... or when 1.0 s has passed; nothing bounds how long a runnable thread
\* may go unscheduled.
JoinClockTimeout ==
    /\ mainPc = "join_clock"
    /\ clockPc # "done"
    /\ mainPc' = "aggregate"
    /\ report' = [written |-> FALSE, total_duration |-> total_duration(last_real_time)]
    /\ UNCHANGED <<schedVars, lock, stateVars, stop_playback, spawned, joined,
                   clockVars, workerVars, xferVars, estVars>>

\* The final metrics, read from the state without taking the lock.
Aggregate ==
    /\ mainPc = "aggregate"
    /\ report' =
         LET rates == per_stream_rates(dict_keys(per_stream_first_ts), per_stream_bytes,
                                       per_stream_first_ts, per_stream_last_ts)
         IN [written |-> TRUE,
             fairness_index |-> fairness_index([i \in 1..Len(rates) |-> rates[i][2]]),
             per_stream_avg_throughput_mbps |-> rates,
             total_bytes |-> total_bytes,
             per_stream_bytes |-> per_stream_bytes,
             total_stalls |-> stall_time,
             total_duration |-> report.total_duration,
             buffer_samples |-> buffer_timeseries.len,
             n_throughputs |-> Len(throughputs)]
    /\ mainPc' = "done"
    /\ UNCHANGED <<schedVars, lock, stateVars, stop_playback, spawned, joined,
                   clockVars, workerVars, xferVars, estVars>>

\* ------------------------------------------------------ playback_simulation
stop_event_is_set_spurious(stop) == TRUE

stop_event_is_set(stop) == stop

ClockCheck ==
    /\ clockPc = "check"
    /\ clockPc' = IF stop_event_is_set(stop_playback) THEN "done" ELSE "sleep"
    /\ UNCHANGED <<schedVars, lock, stateVars, stop_playback, mainVars,
                   last_real_time, delta, sim_time, workerVars, xferVars, estVars>>

\* time.sleep(0.1) returns after d >= 1 tenths; now, delta and sim_time are
\* computed before the lock is requested.
ClockWake ==
    /\ clockPc = "sleep"
    /\ \E d \in TICK_SLEEP..MaxDelta :
          /\ last_real_time + d <= MaxTime
          /\ delta' = d
          /\ last_real_time' = last_real_time + d
          /\ sim_time' = last_real_time + d
    /\ clockPc' = "lock"
    /\ UNCHANGED <<schedVars, lock, stateVars, stop_playback, mainVars, workerVars,
                   xferVars, estVars>>

\* The same wake-up past the horizon: the reading is recorded as MaxTime.
ClockWakeBeyond ==
    /\ clockPc = "sleep"
    /\ \E d \in TICK_SLEEP..MaxDelta :
          /\ last_real_time + d > MaxTime
          /\ delta' = d
    /\ last_real_time' = MaxTime
    /\ sim_time' = MaxTime
    /\ clockPc' = "lock"
    /\ UNCHANGED <<schedVars, lock, stateVars, stop_playback, mainVars, workerVars,
                   xferVars, estVars>>

ClockAcquire ==
    /\ clockPc = "lock"
    /\ lock = Free
    /\ lock' = ClockThread
    /\ clockPc' = "tick"
    /\ UNCHANGED <<schedVars, stateVars, stop_playback, mainVars,
                   last_real_time, delta, sim_time, workerVars, xferVars, estVars>>

swipe_due_untimed(idx, now) == idx + 1 < Len(stream_order)

\* if idx + 1 < len(stream_order) and sim_time >= swipe_map[next_sid]
swipe_due(idx, now) ==
    /\ idx + 1 < Len(stream_order)
    /\ now >= swipe_map[stream_order[idx + 2]]

next_active_index_rewinding(idx, now) ==
    IF swipe_due(idx, now) THEN idx + 1 ELSE IF idx > 0 THEN idx - 1 ELSE idx

next_active_index_once(idx, now) == IF swipe_due(idx, now) /\ idx = 0 THEN idx + 1 ELSE idx

next_active_index(idx, now) == IF swipe_due(idx, now) THEN idx + 1 ELSE idx

next_active_base_id_stale(idx, now, current) == current

\* state["active_base_id"] = next_sid, in the same branch as the index
next_active_base_id(idx, now, current) ==
    IF swipe_due(idx, now) THEN stream_order[idx + 2] ELSE current

drain_unfloored(buf, d) == buf - d

drain(buf, d) == Max(0, buf - d)

add_stall_negated(stall, d) == stall - d

add_stall(stall, d) == stall + d

\* Values past the horizon are recorded as the horizon (only ClockWakeBeyond
\* leads there).
Horizon(x) == Min(x, MaxTime)

append_sample_stale(series, sample) ==
    [len |-> Horizon(series.len + 1), last |-> series.last]

append_sample(series, sample) ==
    [len |-> Horizon(series.len + 1), last |-> sample]

ClockTick ==
    /\ clockPc = "tick"
    /\ lock = ClockThread
    /\ LET idx == next_active_index(active_video_index, sim_time)
           active_id == next_active_base_id(active_video_index, sim_time, active_base_id)
           stalled == ~(buffers[active_id] > 0)
           level == IF stalled THEN buffers[active_id]
                    ELSE drain(buffers[active_id], delta)
       IN /\ active_video_index' = idx
          /\ active_base_id' = active_id
          /\ buffers' = [buffers EXCEPT ![active_id] = level]
          /\ stall_time' = IF stalled THEN Horizon(add_stall(stall_time, delta))
                           ELSE stall_time
          /\ buffer_timeseries' = append_sample(buffer_timeseries, <<sim_time, level>>)
    /\ lock' = Free
    /\ delta' = 0
    /\ clockPc' = "check"
    /\ UNCHANGED <<schedVars, total_bytes, throughputs, bitrate_timeseries,
                   app_bandwidth_est, tp_window, last_stall_time, per_stream_bytes,
                   per_stream_first_ts, per_stream_last_ts,
                   stop_playback, mainVars, last_real_time, sim_time,
                   workerVars, xferVars, estVars>>


\* ------------------------------------------------------ handle_stream_logic
chunk(w) == chunks(w)[wchunk[w]]
\* chunk["video_duration_sec"] raises KeyError on a chunk without the field
has_duration(ev) == "video_duration_sec" \in DOMAIN ev
duration(w) == chunk(w).video_duration_sec
is_background(w) == chunk(w).is_background

\* An exception nothing catches ends the thread (threading prints the
\* traceback); the chunks the worker had left are never processed.
uncaught(pc) == "crashed"

WInit(w) ==
    /\ wpc[w] = "init"
    /\ wpc' = [wpc EXCEPT ![w] = IF ~has_action(streams[w].events) THEN uncaught("init")
                                 ELSE IF chunks(w) = <<>> THEN "done" ELSE "gate_lock"]
    /\ UNCHANGED <<schedVars, lock, stateVars, stop_playback, mainVars, clockVars,
                   wchunk, wactive, wbitrate, wsize, wrecvd, xferVars, estVars>>

\* with state["lock"]:  (gate, ABR decision, mid-transfer check, update)
CriticalSection(pc) ==
    CASE pc = "gate_lock" -> "gate_cs"
      [] pc = "abr_lock" -> "abr_cs"
      [] pc = "recv_lock" -> "recv_cs"
      [] pc = "update_lock" -> "update_cs"

WAcquire(w) ==
    /\ wpc[w] \in {"gate_lock", "abr_lock", "recv_lock", "update_lock"}
    /\ lock = Free
    /\ lock' = WorkerThread(w)
    /\ wpc' = [wpc EXCEPT ![w] = CriticalSection(wpc[w])]
    /\ UNCHANGED <<schedVars, stateVars, stop_playback, mainVars, clockVars,
                   wchunk, wactive, wbitrate, wsize, wrecvd, xferVars, estVars>>

gate_outcome_never_returns(idx, active_idx, curr_buf, background) ==
    IF idx = active_idx
    THEN IF curr_buf < MAX_BUFFER_ACTIVE THEN "break" ELSE "sleep"
    ELSE IF idx = active_idx + 1 /\ background /\ curr_buf < PREFETCH_TARGET
         THEN "break"
         ELSE "sleep"

gate_outcome_behind_proceeds(idx, active_idx, curr_buf, background) ==
    IF idx <= active_idx
    THEN IF curr_buf < MAX_BUFFER_ACTIVE THEN "break" ELSE "sleep"
    ELSE IF idx = active_idx + 1 /\ background /\ curr_buf < PREFETCH_TARGET
         THEN "break"
         ELSE "sleep"

gate_outcome_eager(idx, active_idx, curr_buf, background) ==
    IF idx < active_idx THEN "return"
    ELSE IF idx = active_idx
         THEN IF curr_buf < MAX_BUFFER_ACTIVE THEN "break" ELSE "sleep"
         ELSE IF idx = active_idx + 1 /\ curr_buf < PREFETCH_TARGET
              THEN "break"
              ELSE "sleep"

\* One pass of the gating loop on the snapshot (active_idx, curr_buf).
gate_outcome(idx, active_idx, curr_buf, background) ==
    IF idx < active_idx THEN "return"
    ELSE IF idx = active_idx
         THEN IF curr_buf < MAX_BUFFER_ACTIVE THEN "break" ELSE "sleep"
         ELSE IF idx = active_idx + 1 /\ background /\ curr_buf < PREFETCH_TARGET
              THEN "break"
              ELSE "sleep"

WGate(w) ==
    /\ wpc[w] = "gate_cs"
    /\ lock = WorkerThread(w)
    /\ LET outcome == gate_outcome(my_idx(w), active_video_index,
                                   buffers[base_id(w)], is_background(w))
       IN wpc' = [wpc EXCEPT ![w] = CASE outcome = "return" -> "done"
                                      [] outcome = "break" -> "abr_lock"
                                      [] outcome = "sleep" -> "gate_lock"]
    /\ lock' = Free
    /\ UNCHANGED <<schedVars, stateVars, stop_playback, mainVars, clockVars,
                   wchunk, wactive, wbitrate, wsize, wrecvd, xferVars, estVars>>

\* except: pass ... finally: s.close(): a failed exchange falls through to
\* the update block with what was received so far.
after_failed_exchange_fatal(pc) == "crashed"

after_failed_exchange(pc) == "update_lock"

\* The ABR decision, then socket(), connect(), sendall(request) outside the
\* lock: they succeed (connected) or one of them raises (except: pass).
WAbrThen(w, connected) ==
    /\ wpc[w] = "abr_cs"
    /\ lock = WorkerThread(w)
    /\ has_duration(chunk(w))
    /\ LET is_active == (my_idx(w) = active_video_index)
           bitrate == get_abr_decision(app_bandwidth_est, buffers[base_id(w)],
                                       buffers[active_base_id], is_active)
           size == size_bytes(duration(w), bitrate)
       IN /\ wactive' = [wactive EXCEPT ![w] = is_active]
          /\ wbitrate' = [wbitrate EXCEPT ![w] = bitrate]
          /\ wsize' = [wsize EXCEPT ![w] = size]
          /\ wpc' = [wpc EXCEPT ![w] = IF ~connected THEN after_failed_exchange("abr_cs")
                                       ELSE IF 0 < size THEN "recv_lock"
                                       ELSE "update_lock"]
    /\ wrecvd' = [wrecvd EXCEPT ![w] = 0]
    /\ lock' = Free
    /\ UNCHANGED <<schedVars, stateVars, stop_playback, mainVars, clockVars,
                   wchunk, xferVars, estVars>>

WAbr(w) == WAbrThen(w, TRUE)

\* duration = chunk["video_duration_sec"] raises after the ABR block has
\* released the lock: the ABR decision touched no state.
WChunkError(w) ==
    /\ wpc[w] = "abr_cs"
    /\ lock = WorkerThread(w)
    /\ ~has_duration(chunk(w))
    /\ wpc' = [wpc EXCEPT ![w] = uncaught("abr_cs")]
    /\ lock' = Free
    /\ UNCHANGED <<schedVars, stateVars, stop_playback, mainVars, clockVars,
                   wchunk, wactive, wbitrate, wsize, wrecvd, xferVars, estVars>>

WConnectFails(w) == WAbrThen(w, FALSE)

\* while recvd < size_bytes
more_to_receive(recvd, size) == recvd < size

\* The byte counts at which the model looks at a transfer again.  The peer
\* is the engine's own responder: it never sends more than was requested.
\* One step stands for one or more passes of the receive loop whose
\* mid-transfer checks all found the worker not behind.
RecvProgress(size, recvd) == {x \in {size \div 2, size} : x > recvd}

fallen_behind_never(idx, active_idx) == FALSE

\* if my_idx < state["active_video_index"]
fallen_behind(idx, active_idx) == idx < active_idx

\* Mid-transfer check, then d = s.recv(CHUNK_SIZE): data arrives ...
WRecvData(w) ==
    /\ wpc[w] = "recv_cs"
    /\ lock = WorkerThread(w)
    /\ ~fallen_behind(my_idx(w), active_video_index)
    /\ \E x \in RecvProgress(wsize[w], wrecvd[w]) :
          /\ wrecvd' = [wrecvd EXCEPT ![w] = x]
          /\ wpc' = [wpc EXCEPT ![w] = IF more_to_receive(x, wsize[w])
                                       THEN "recv_lock" ELSE "update_lock"]
    /\ lock' = Free
    /\ UNCHANGED <<schedVars, stateVars, stop_playback, mainVars, clockVars,
                   wchunk, wactive, wbitrate, wsize, xferVars, estVars>>

\* ... or recv returns b"" (the peer closed) or raises (timeout, reset).
WRecvEnds(w) ==
    /\ wpc[w] = "recv_cs"
    /\ lock = WorkerThread(w)
    /\ ~fallen_behind(my_idx(w), active_video_index)
    /\ wpc' = [wpc EXCEPT ![w] = after_failed_exchange("recv_cs")]
    /\ lock' = Free
    /\ UNCHANGED <<schedVars, stateVars, stop_playback, mainVars, clockVars,
                   wchunk, wactive, wbitrate, wsize, wrecvd, xferVars, estVars>>

after_cancel_counts(pc) == "update_lock"

\* s.close(); return: the update block is never reached.
after_cancel(pc) == "done"

\* Mid-transfer check finds the worker behind: s.close(); return
WRecvAbort(w) ==
    /\ wpc[w] = "recv_cs"
    /\ lock = WorkerThread(w)
    /\ fallen_behind(my_idx(w), active_video_index)
    /\ wpc' = [wpc EXCEPT ![w] = after_cancel("recv_cs")]
    /\ lock' = Free
    /\ UNCHANGED <<schedVars, stateVars, stop_playback, mainVars, clockVars,
                   wchunk, wactive, wbitrate, wsize, wrecvd, xferVars, estVars>>

\* dt = max(1e-6, time.time() - t0), in ms
DtChoices == {250, 2000}

\* tp_mbps = (recvd * 8) / (dt * 1e6)
throughput(recvd, dt) == (recvd * 8) \div dt

credit_refund(dur, recvd, size) == 0 - ((dur * recvd) \div Max(1, size))

\* frac = recvd / max(1, size_bytes); buffers[base_id] += duration * frac
credit(dur, recvd, size) == (dur * recvd) \div Max(1, size)

add_credit_overwrites(level, c) == c

\* state["buffers"][base_id] += (duration * frac)
add_credit(level, c) == level + c

\* state["total_bytes"] += recvd
add_total_bytes_lost(total, recvd) == recvd

add_total_bytes(total, recvd) == total + recvd

\* state["per_stream_bytes"][full_sid] += recvd
add_stream_bytes(count, recvd) == count + recvd

next_chunk_skips(i) == i + 2

\* for chunk in chunks: the loop takes the chunks one by one in list order
next_chunk(i) == i + 1

WUpdate(w) ==
    /\ wpc[w] = "update_cs"
    /\ lock = WorkerThread(w)
    /\ \E dt \in DtChoices :
        LET tp_mbps == throughput(wrecvd[w], dt)
            credited == [buffers EXCEPT ![base_id(w)] =
                            add_credit(@, credit(duration(w), wrecvd[w], wsize[w]))]
            est == update_bandwidth_estimate(app_bandwidth_est, tp_window,
                        last_stall_time, stall_time,
                        active_buffer(credited, active_base_id, base_id(w)), tp_mbps)
        IN IF wrecvd[w] > 0
           THEN /\ total_bytes' = add_total_bytes(total_bytes, wrecvd[w])
                /\ throughputs' = Append(throughputs, tp_mbps)
                /\ bitrate_timeseries' = Append(bitrate_timeseries, wbitrate[w])
                /\ buffers' = credited
                /\ per_stream_bytes' = [per_stream_bytes EXCEPT ![Sid(streams[w])] =
                                            add_stream_bytes(@, wrecvd[w])]
                /\ per_stream_first_ts' =
                       set_default(per_stream_first_ts, Sid(streams[w]), last_real_time)
                /\ per_stream_last_ts' =
                       set_item(per_stream_last_ts, Sid(streams[w]), last_real_time)
                /\ app_bandwidth_est' = est.app_bandwidth_est
                /\ tp_window' = est.tp_window
                /\ last_stall_time' = est.last_stall_time
           ELSE UNCHANGED <<total_bytes, throughputs, bitrate_timeseries, buffers,
                            per_stream_bytes, per_stream_first_ts,
                            per_stream_last_ts, app_bandwidth_est, tp_window,
                            last_stall_time>>
    /\ lock' = Free
    /\ wchunk' = [wchunk EXCEPT ![w] = next_chunk(@)]
    /\ wpc' = [wpc EXCEPT ![w] = IF next_chunk(wchunk[w]) > Len(chunks(w))
                                 THEN "done" ELSE "gate_lock"]
    /\ wactive' = [wactive EXCEPT ![w] = FALSE]
    /\ wbitrate' = [wbitrate EXCEPT ![w] = 0]
    /\ wsize' = [wsize EXCEPT ![w] = 0]
    /\ wrecvd' = [wrecvd EXCEPT ![w] = 0]
    /\ UNCHANGED <<schedVars, stall_time, active_video_index, active_base_id,
                   buffer_timeseries, stop_playback, mainVars, clockVars, xferVars, estVars>>

\* ------------------------------------------------------------ specification
MainStep ==
    \/ StartPlayback
    \/ SpawnWorker
    \/ JoinWorker
    \/ SetStop
    \/ JoinClock
    \/ JoinClockTimeout
    \/ Aggregate

WorkerStep(w) ==
    \/ WInit(w)
    \/ WGate(w)
    \/ WAbr(w)
    \/ WConnectFails(w)
    \/ WChunkError(w)
    \/ WRecvData(w)
    \/ WRecvEnds(w)
    \/ WRecvAbort(w)
    \/ WUpdate(w)

Next ==
    \/ MainStep
    \/ ClockCheck
    \/ ClockWake
    \/ ClockAcquire
    \/ ClockTick
    \/ \E w \in Workers : WAcquire(w)
    \/ \E w \in Workers : WorkerStep(w)

Spec == Init /\ [][Next]_vars


\* The run with the clock followed past the horizon, under fair scheduling:
\* every thread that can run eventually does, a thread waiting for the lock
\* eventually gets it (SF: the lock is free again and again), and a blocked
\* socket call returns (by data, close, or the 2 s timeout).
LiveSchedules == {ScheduleShort, ScheduleMalformed}

AllSchedules == Schedules \cup LiveSchedules \cup {ScheduleCatchUp, ScheduleCeiling}

WorkerIds == 1..(CHOOSE n \in {Len(s) : s \in AllSchedules} :
                    \A m \in {Len(s) : s \in AllSchedules} : m <= n)

LiveNext == Next \/ ClockWakeBeyond

Fairness ==
    /\ WF_vars(MainStep)
    /\ WF_vars(ClockCheck)
    /\ WF_vars(ClockWake \/ ClockWakeBeyond)
    /\ SF_vars(ClockAcquire)
    /\ WF_vars(ClockTick)
    /\ \A w \in WorkerIds : SF_vars(w \in Workers /\ WAcquire(w))
    /\ \A w \in WorkerIds : WF_vars(w \in Workers /\ WorkerStep(w))

LiveInit == (\E schedule \in LiveSchedules : InitRun(schedule)) /\ XferIdle /\ EstIdle

LiveSpec == LiveInit /\ [][LiveNext]_vars /\ Fairness

\* The same for the run whose clock starts several stream boundaries late.
CatchUpInit == InitRun(ScheduleCatchUp) /\ XferIdle /\ EstIdle

CatchUpSpec == CatchUpInit /\ [][LiveNext]_vars /\ Fairness

\* The run on the schedule whose fragments fill the active buffer.
CeilingInit == InitRun(ScheduleCeiling) /\ XferIdle /\ EstIdle

SpecCeiling == CeilingInit /\ [][Next]_vars

\* ------------------------------------------------- the estimator on its own
\* update_bandwidth_estimate as a function of what it reads: the state of a
\* fresh run is fed samples, with the active buffer level and stall_time
\* the estimator finds at each call drawn from bounded sets, and a second
\* fresh state (twin) is fed the same.  The first MaxFreeFeeds calls take
\* any input; then the last input repeats until the window has turned over.
\* As in the update block, the sample is appended to throughputs before the
\* estimator is called.  The sample comes from a prefetch of the video that
\* is not active, whose buffer is at a level of another band (OtherLevel)
\* than the active one's.
Samples == {0, 900, 200000}
BufferLevels == {0, 25, 40, 70, 110, 150}

OtherLevel(buf_active) == IF buf_active < PANIC_THRESHOLD THEN 150 ELSE 0

EstFeedWith(tp_mbps, buf_active, stall) ==
    LET bufs == [b \in DOMAIN buffers |->
                    IF b = active_base_id THEN buf_active ELSE OtherLevel(buf_active)]
        sampled_id == CHOOSE b \in DOMAIN buffers : b # active_base_id
        found == active_buffer(bufs, active_base_id, sampled_id)
        est == update_bandwidth_estimate(app_bandwidth_est, tp_window, last_stall_time,
                                         stall, found, tp_mbps)
    IN /\ app_bandwidth_est' = est.app_bandwidth_est
       /\ tp_window' = est.tp_window
       /\ last_stall_time' = est.last_stall_time
       /\ twin' = update_bandwidth_estimate(twin.app_bandwidth_est, twin.tp_window,
                                            twin.last_stall_time, stall, found, tp_mbps)
       /\ buffers' = bufs
       /\ stall_time' = stall
       /\ throughputs' = Append(throughputs, tp_mbps)
       /\ fed' = fed + 1
       /\ UNCHANGED <<schedVars, lock, total_bytes, active_video_index, active_base_id,
                      bitrate_timeseries, buffer_timeseries,
                      per_stream_bytes, per_stream_first_ts, per_stream_last_ts,
                      stop_playback, mainVars, clockVars, workerVars, xferVars>>

EstFeed ==
    /\ fed < MaxFreeFeeds
    /\ \E tp_mbps \in Samples, buf_active \in BufferLevels, stall \in {stall_time, stall_time + 1} :
          EstFeedWith(tp_mbps, buf_active, stall)

EstFeedAgain ==
    /\ fed >= MaxFreeFeeds
    /\ fed < MaxFreeFeeds + TP_WINDOW_LEN
    /\ EstFeedWith(tp_window[Len(tp_window)], buffers[active_base_id], stall_time)

EstNext == EstFeed \/ EstFeedAgain

EstInit == InitRun(ScheduleShort) /\ XferIdle /\ EstIdle

SpecEstimator == EstInit /\ [][EstNext]_vars

\* ------------------------------------------------------- the final metrics
\* run_client from `# --- Compute final metrics` on, for every table of
\* per-stream counters a run can leave: each stream was never credited, or
\* was credited some bytes over some span.  The workers and the clock have
\* ended; the fields the per-stream metrics do not read are as a run that
\* credited each such stream once would leave them.
CreditedBytes == {GHOST_MIN_BYTES, GHOST_MIN_BYTES + 1, 2 * (GHOST_MIN_BYTES + 1)}
CreditSpans == {0, GHOST_MIN_SPAN, 2 * GHOST_MIN_SPAN, 4 * GHOST_MIN_SPAN}

StreamOutcomes ==
    {[credited |-> FALSE, bytes |-> 0, span |-> 0]}
    \cup {[credited |-> TRUE, bytes |-> b, span |-> s] : b \in CreditedBytes, s \in CreditSpans}

RECURSIVE CreditedItems(_, _, _)
CreditedItems(plans, outcome, end) ==
    IF plans = <<>> THEN <<>>
    ELSE LET sid == Sid(Head(plans))
             rest == CreditedItems(Tail(plans), outcome, end)
         IN IF outcome[sid].credited
            THEN <<<<sid, IF end THEN outcome[sid].span ELSE 0>>>> \o rest
            ELSE rest

RECURSIVE SumBytes(_, _)
SumBytes(plans, outcome) ==
    IF plans = <<>> THEN 0
    ELSE outcome[Sid(Head(plans))].bytes + SumBytes(Tail(plans), outcome)

MetricsInit ==
    /\ InitSchedule(ScheduleCatchUp)
    /\ \E outcome \in [{Sid(ScheduleCatchUp[i]) : i \in 1..Len(ScheduleCatchUp)}
                            -> StreamOutcomes] :
          /\ per_stream_bytes = [s \in DOMAIN outcome |-> outcome[s].bytes]
          /\ per_stream_first_ts = CreditedItems(SortStreams(ScheduleCatchUp), outcome, FALSE)
          /\ per_stream_last_ts = CreditedItems(SortStreams(ScheduleCatchUp), outcome, TRUE)
          /\ total_bytes = SumBytes(ScheduleCatchUp, outcome)
          /\ throughputs = [i \in 1..Len(CreditedItems(ScheduleCatchUp, outcome, TRUE))
                                |-> 8]
          /\ bitrate_timeseries =
                [i \in 1..Len(CreditedItems(ScheduleCatchUp, outcome, TRUE))
                    |-> BITRATE_LADDER[1]]
          /\ tp_window = [i \in 1..Len(CreditedItems(ScheduleCatchUp, outcome, TRUE))
                              |-> 8]
    /\ lock = Free
    /\ buffers = [b \in {ScheduleCatchUp[i].base : i \in 1..Len(ScheduleCatchUp)} |-> 0]
    /\ stall_time = 0
    /\ active_video_index = Len(ScheduleCatchUp) - 1
    /\ active_base_id = ScheduleCatchUp[Len(ScheduleCatchUp)].base
    /\ buffer_timeseries = [len |-> 0, last |-> <<0, 0>>]
    /\ app_bandwidth_est = INITIAL_BANDWIDTH_EST
    /\ last_stall_time = 0
    /\ stop_playback = TRUE
    /\ mainPc = "aggregate"
    /\ spawned = Len(ScheduleCatchUp)
    /\ joined = Len(ScheduleCatchUp)
    /\ report = [written |-> FALSE, total_duration |-> total_duration(0)]
    /\ clockPc = "done"
    /\ last_real_time = 0
    /\ delta = 0
    /\ sim_time = 0
    /\ wpc = [w \in 1..Len(ScheduleCatchUp) |-> "done"]
    /\ wchunk = [w \in 1..Len(ScheduleCatchUp) |-> 1]
    /\ wactive = [w \in 1..Len(ScheduleCatchUp) |-> FALSE]
    /\ wbitrate = [w \in 1..Len(ScheduleCatchUp) |-> 0]
    /\ wsize = [w \in 1..Len(ScheduleCatchUp) |-> 0]
    /\ wrecvd = [w \in 1..Len(ScheduleCatchUp) |-> 0]
    /\ XferIdle
    /\ EstIdle

SpecMetrics == MetricsInit /\ [][Aggregate]_vars

\* ---------------------------------------------------------- transfer protocol
\* One exchange between the initiator (handle_stream_logic's download block,
\* requesting xN bytes) and the responder (handle_server_connection), byte
\* for byte.  c2s holds the request characters in flight, s2c the number of
\* content bytes in flight; xFault collects what went wrong ("io" on the
\* initiator's side, "srv_io" on the responder's, "cancel").
DigitChars == <<"0", "1", "2", "3", "4", "5", "6", "7", "8", "9">>

RECURSIVE decimal(_)
decimal(n) ==
    IF n < 10 THEN <<DigitChars[n + 1]>>
    ELSE decimal(n \div 10) \o <<DigitChars[(n % 10) + 1]>>

\* f"{size_bytes}\n"
request_line(n) == (IF n < 0 THEN <<"-">> \o decimal(0 - n) ELSE decimal(n)) \o <<"\n">>

digit_value(c) == (CHOOSE i \in 1..10 : DigitChars[i] = c) - 1

RECURSIVE digits_value(_, _)
digits_value(s, acc) ==
    IF s = <<>> THEN acc ELSE digits_value(Tail(s), 10 * acc + digit_value(Head(s)))

is_digits(s) == s # <<>> /\ \A i \in 1..Len(s) : s[i] \in Range(DigitChars)

\* data.split(b"\n", 1)[0]
first_line(data) ==
    SubSeq(data, 1, (CHOOSE i \in 1..Len(data) :
                        data[i] = "\n" /\ \A j \in 1..(i - 1) : data[j] # "\n") - 1)

\* int(text) succeeds on an optional sign followed by digits
parses(s) == is_digits(s) \/ (s # <<>> /\ Head(s) = "-" /\ is_digits(Tail(s)))

parse_int(s) == IF Head(s) = "-" THEN 0 - digits_value(Tail(s), 0) ELSE digits_value(s, 0)

\* len(os.urandom(min(bytes_to_send, 1024 * 1024)))
payload_len(bytes_to_send) == Min(bytes_to_send, PAYLOAD_MAX)

to_send_whole_payload(bytes_to_send, sent) == payload_len(bytes_to_send)

\* to_send = min(len(payload), bytes_to_send - sent)
to_send(bytes_to_send, sent) == Min(payload_len(bytes_to_send), bytes_to_send - sent)

\* What one recv(CHUNK_SIZE) may return of `avail` bytes in flight.
RecvSizes(avail) == {Min(CHUNK_SIZE, avail), Min(CHUNK_SIZE \div 2, avail)}

XferCounts == {0 - 1, 0, 1, CHUNK_SIZE + 1, PAYLOAD_MAX + MaxExtra}

XferInit ==
    /\ InitRun(ScheduleShort)
    /\ xN \in XferCounts
    /\ xcPc = "start" /\ xsPc = "listening"
    /\ c2s = <<>> /\ s2c = 0 /\ xsData = <<>> /\ xsBytesToSend = 0
    /\ xsSent = 0 /\ xcRecvd = 0
    /\ xFault = {}
    /\ EstIdle

simVars == <<schedVars, lock, stateVars, stop_playback, mainVars, clockVars, workerVars,
             estVars>>

\* s.connect(); s.sendall(request)
XConnect ==
    /\ xcPc = "start"
    /\ c2s' = request_line(xN)
    /\ xcPc' = "loop"
    /\ xsPc' = "read"
    /\ UNCHANGED <<simVars, xN, s2c, xsData, xsBytesToSend, xsSent, xcRecvd, xFault>>

\* connect() raises, or sendall() raises after part of the line has left.
XConnectFails ==
    /\ xcPc = "start"
    /\ \E k \in 0..(Len(request_line(xN)) - 1) :
          /\ c2s' = SubSeq(request_line(xN), 1, k)
          /\ xsPc' = IF k = 0 THEN "closed" ELSE "read"
    /\ xcPc' = "closed"
    /\ xFault' = xFault \cup {"io"}
    /\ UNCHANGED <<simVars, xN, s2c, xsData, xsBytesToSend, xsSent, xcRecvd>>

\* while recvd < size_bytes: ... d = s.recv(CHUNK_SIZE); recvd += len(d)
XRecv ==
    /\ xcPc = "loop"
    /\ more_to_receive(xcRecvd, xN)
    /\ s2c > 0
    /\ \E d \in RecvSizes(s2c) :
          /\ xcRecvd' = xcRecvd + d
          /\ s2c' = s2c - d
    /\ UNCHANGED <<simVars, xN, xcPc, xsPc, c2s, xsData, xsBytesToSend, xsSent, xFault>>

\* The loop ends: everything requested has arrived, or recv returned b"".
XRecvDone ==
    /\ xcPc = "loop"
    /\ \/ ~more_to_receive(xcRecvd, xN)
       \/ s2c = 0 /\ xsPc = "closed"
    /\ xcPc' = "closed"
    /\ UNCHANGED <<simVars, xN, xsPc, c2s, s2c, xsData, xsBytesToSend, xsSent, xcRecvd,
                   xFault>>

\* recv raises (timeout after 2 s, reset)
XRecvFails ==
    /\ xcPc = "loop"
    /\ more_to_receive(xcRecvd, xN)
    /\ xcPc' = "closed"
    /\ xFault' = xFault \cup {"io"}
    /\ UNCHANGED <<simVars, xN, xsPc, c2s, s2c, xsData, xsBytesToSend, xsSent, xcRecvd>>

\* The mid-transfer check finds the worker behind: s.close(); return
XCancel ==
    /\ xcPc = "loop"
    /\ more_to_receive(xcRecvd, xN)
    /\ xcPc' = "closed"
    /\ xFault' = xFault \cup {"cancel"}
    /\ UNCHANGED <<simVars, xN, xsPc, c2s, s2c, xsData, xsBytesToSend, xsSent, xcRecvd>>

\* while b"\n" not in data: chunk = conn.recv(1024); data += chunk
XSrvRead ==
    /\ xsPc = "read"
    /\ c2s # <<>>
    /\ \E k \in 1..Min(SERVER_RECV_SIZE, Len(c2s)) :
          /\ xsData' = xsData \o SubSeq(c2s, 1, k)
          /\ c2s' = SubSeq(c2s, k + 1, Len(c2s))
          /\ xsPc' = IF "\n" \in Range(xsData \o SubSeq(c2s, 1, k)) THEN "parse" ELSE "read"
    /\ UNCHANGED <<simVars, xN, xcPc, s2c, xsBytesToSend, xsSent, xcRecvd, xFault>>

\* if not chunk: return   (the initiator closed before the terminator)
XSrvReadEof ==
    /\ xsPc = "read"
    /\ c2s = <<>>
    /\ xcPc = "closed"
    /\ xsPc' = "closed"
    /\ UNCHANGED <<simVars, xN, xcPc, c2s, s2c, xsData, xsBytesToSend, xsSent, xcRecvd,
                   xFault>>

\* bytes_to_send = int(...); payload = os.urandom(min(bytes_to_send, 1 MiB));
\* a ValueError from either ends the exchange (except: pass).
XSrvParse ==
    /\ xsPc = "parse"
    /\ LET line == first_line(xsData)
       IN IF parses(line) /\ parse_int(line) >= 0
          THEN /\ xsBytesToSend' = parse_int(line)
               /\ xsPc' = "send"
          ELSE /\ xsBytesToSend' = xsBytesToSend
               /\ xsPc' = "closed"
    /\ UNCHANGED <<simVars, xN, xcPc, c2s, s2c, xsData, xsSent, xcRecvd, xFault>>

\* while sent < bytes_to_send: conn.sendall(payload[:to_send]); sent += to_send
XSrvSend ==
    /\ xsPc = "send"
    /\ xsSent < xsBytesToSend
    /\ s2c' = s2c + to_send(xsBytesToSend, xsSent)
    /\ xsSent' = xsSent + to_send(xsBytesToSend, xsSent)
    /\ UNCHANGED <<simVars, xN, xcPc, xsPc, c2s, xsData, xsBytesToSend, xcRecvd, xFault>>

\* sendall raises (the initiator has gone): except: pass
XSrvSendFails ==
    /\ xsPc = "send"
    /\ xsSent < xsBytesToSend
    /\ xcPc = "closed"
    /\ xsPc' = "closed"
    /\ xFault' = xFault \cup {"srv_io"}
    /\ UNCHANGED <<simVars, xN, xcPc, c2s, s2c, xsData, xsBytesToSend, xsSent, xcRecvd>>

\* the loop is over; finally: conn.close()
XSrvClose ==
    /\ xsPc = "send"
    /\ ~(xsSent < xsBytesToSend)
    /\ xsPc' = "closed"
    /\ UNCHANGED <<simVars, xN, xcPc, c2s, s2c, xsData, xsBytesToSend, xsSent, xcRecvd,
                   xFault>>

XferNext ==
    \/ XConnect
    \/ XConnectFails
    \/ XRecv
    \/ XRecvDone
    \/ XRecvFails
    \/ XCancel
    \/ XSrvRead
    \/ XSrvReadEof
    \/ XSrvParse
    \/ XSrvSend
    \/ XSrvSendFails
    \/ XSrvClose

SpecXfer == XferInit /\ [][XferNext]_vars

\* --------------------------------------------- the gate and the ABR decision
\* handle_stream_logic from the gating loop to the request, from the states a
\* run can be in when the workers stand at the gate: any stream active, each
\* video's buffer at either side of the two ceilings, each worker before its
\* prefetch chunk or its ordinary one, the estimate anywhere in its range.
\* The clock is not scheduled: what a worker's snapshot showed is still so
\* when the next state is looked at.
ScheduleGate ==
    << Plan(0, 0, 0, << Ev("download", 3, TRUE), Ev("download", 3, FALSE) >>),
       Plan(1, 0, 1, << Ev("download", 3, TRUE), Ev("download", 3, FALSE) >>),
       Plan(2, 0, 2, << Ev("download", 3, TRUE), Ev("download", 3, FALSE) >>) >>

GateLevels == {PREFETCH_TARGET - 1, PREFETCH_TARGET, MAX_BUFFER_ACTIVE - 1, MAX_BUFFER_ACTIVE}
Estimates == {EST_FLOOR, 1000, 1112, INITIAL_BANDWIDTH_EST, 10000, EST_CEILING}

DecideInit ==
    /\ InitSchedule(ScheduleGate)
    /\ lock = Free
    /\ total_bytes = 0
    /\ buffers \in [{ScheduleGate[i].base : i \in 1..Len(ScheduleGate)} -> GateLevels]
    /\ stall_time = 0
    /\ active_video_index \in 0..(Len(ScheduleGate) - 1)
    /\ active_base_id =
           BuildStreamOrder(SortStreams(ScheduleGate), <<>>)[active_video_index + 1]
    /\ throughputs = <<>>
    /\ bitrate_timeseries = <<>>
    /\ buffer_timeseries = [len |-> 0, last |-> <<0, 0>>]
    /\ app_bandwidth_est \in Estimates
    /\ tp_window = fresh_estimator_state(1).tp_window
    /\ last_stall_time = fresh_estimator_state(1).last_stall_time
    /\ per_stream_bytes = [s \in {Sid(ScheduleGate[i]) : i \in 1..Len(ScheduleGate)} |-> 0]
    /\ per_stream_first_ts = <<>>
    /\ per_stream_last_ts = <<>>
    /\ stop_playback = FALSE
    /\ mainPc = "join"
    /\ spawned = Len(ScheduleGate)
    /\ joined = 0
    /\ report = [written |-> FALSE]
    /\ clockPc = "check"
    /\ last_real_time = 0
    /\ delta = 0
    /\ sim_time = 0
    /\ wpc = [w \in 1..Len(ScheduleGate) |-> "gate_lock"]
    /\ wchunk \in [1..Len(ScheduleGate) -> 1..2]
    /\ wactive = [w \in 1..Len(ScheduleGate) |-> FALSE]
    /\ wbitrate = [w \in 1..Len(ScheduleGate) |-> 0]
    /\ wsize = [w \in 1..Len(ScheduleGate) |-> 0]
    /\ wrecvd = [w \in 1..Len(ScheduleGate) |-> 0]
    /\ XferIdle
    /\ EstIdle

DecideAcquire == \E w \in Workers : wpc[w] \in {"gate_lock", "abr_lock"} /\ WAcquire(w)

DecideNext ==
    \/ DecideAcquire
    \/ \E w \in Workers : WGate(w)
    \/ \E w \in Workers : WAbr(w)
    \/ \E w \in Workers : WConnectFails(w)

SpecDecide == DecideInit /\ [][DecideNext]_vars

\* ================================================================== claims
RECURSIVE SumOver(_, _)
SumOver(f, keys) ==
    IF keys = {} THEN 0
    ELSE LET k == CHOOSE x \in keys : TRUE IN f[k] + SumOver(f, keys \ {k})

Running(w) == wpc[w] \notin (Terminated \cup {"unborn"})
AllWorkersTerminated == \A w \in Workers : wpc[w] \in Terminated
InCriticalSection(w) == wpc[w] \in {"gate_cs", "abr_cs", "recv_cs", "update_cs"}

\* C1: in every step active_video_index stays the same or grows by exactly
\* one, and a step that changes it is the clock's locked tick (no worker or
\* main step changes it; it never decreases).
C1_IndexStepsByOneInTick ==
    [][\/ active_video_index' = active_video_index
       \/ /\ active_video_index' = active_video_index + 1
          /\ clockPc = "tick" /\ lock = ClockThread /\ clockPc' = "check"
          /\ wpc' = wpc]_vars

\* The index has advanced while a worker was in the middle of a transfer.
C1_Witness ==
    /\ active_video_index = 1
    /\ \E w \in Workers : wpc[w] \in {"recv_lock", "update_lock"}

\* C2: the stream at position k+1 becomes active only in a tick whose
\* sim_time has reached the playback_start_sec of the first schedule
\* fragment with that base_id, and no stream past position 0 is ever active
\* while the clock's time is below that value.
RecordedStart(b) ==
    LET i == CHOOSE i \in 1..Len(streams) :
                /\ streams[i].base = b
                /\ \A j \in 1..(i - 1) : streams[j].base # b
    IN streams[i].playback_start_sec

C2_ActiveOnlyOnceDue ==
    /\ [](active_video_index > 0 => last_real_time >= RecordedStart(active_base_id))
    /\ [][active_video_index' # active_video_index =>
            /\ clockPc = "tick"
            /\ sim_time >= RecordedStart(stream_order[active_video_index' + 1])]_vars

\* A tick before the start time left position 0 active, a later one switched.
C2_Witness ==
    /\ active_video_index = 1
    /\ buffer_timeseries.len >= 2
    /\ RecordedStart(active_base_id) > 1

\* C3: every buffer level is >= 0 in every reachable state.
C3_BuffersNonNegative == \A b \in DOMAIN buffers : buffers[b] >= 0

\* A credited buffer was drained to the floor by the last tick, no stall yet.
C3_Witness ==
    /\ total_bytes > 0
    /\ stall_time = 0
    /\ buffer_timeseries.len > 0
    /\ buffer_timeseries.last[2] = 0
    /\ \A b \in DOMAIN buffers : buffers[b] = 0

\* C4: the per-stream byte counters always add up to total_bytes, also in
\* the values the aggregator reads.
C4_BytesAddUp ==
    /\ SumOver(per_stream_bytes, DOMAIN per_stream_bytes) = total_bytes
    /\ report.written =>
          SumOver(report.per_stream_bytes, DOMAIN report.per_stream_bytes)
              = report.total_bytes

\* The report was written after two workers each credited bytes.
C4_Witness ==
    /\ report.written
    /\ Cardinality({s \in DOMAIN per_stream_bytes : per_stream_bytes[s] > 0}) >= 2

\* C5: stall_time never decreases, and a step that changes it is the clock's
\* locked tick: no worker step (the estimator runs inside one) changes it.
C5_StallMonotoneClockOnly ==
    [][/\ stall_time' >= stall_time
       /\ stall_time' # stall_time =>
             (clockPc = "tick" /\ lock = ClockThread /\ wpc' = wpc)]_vars

\* The estimator has run after a stall and recorded it.
C5_Witness == stall_time > 0 /\ last_stall_time > 0 /\ tp_window # <<>>

\* C7: the stop signal is raised only when every worker has terminated, the
\* clock ends only once the signal is raised, hence the clock is alive while
\* any worker runs.
C7_ClockStopsOnlyOnSignal ==
    /\ stop_playback => AllWorkersTerminated
    /\ clockPc = "done" => stop_playback
    /\ (\E w \in Workers : Running(w)) => clockPc \notin {"unborn", "done"}

C7_Witness == clockPc = "done" /\ stop_playback /\ buffer_timeseries.len > 0

\* C8: every access to the mutable state happens under the lock (workers in
\* their four critical sections, the clock in its tick), or, for the
\* aggregator, when no worker and no clock can still be running.
C8_AccessUnderLock ==
    /\ \A w \in Workers : InCriticalSection(w) => lock = WorkerThread(w)
    /\ clockPc = "tick" => lock = ClockThread
    /\ mainPc = "aggregate" => (AllWorkersTerminated /\ clockPc = "done")

\* C9: the aggregator starts only after all workers and the clock have
\* stopped, and no tick changes the state from then on.
C9_AggregatorAfterClock ==
    /\ [](mainPc \in {"aggregate", "done"} => (AllWorkersTerminated /\ clockPc = "done"))
    /\ [][(mainPc \in {"aggregate", "done"}) =>
            UNCHANGED <<buffers, stall_time, buffer_timeseries>>]_vars


\* C6: under fair scheduling, with every socket call returning in finite time,
\* every worker terminates and the aggregator writes the report.
C6_RunTerminates == <>(AllWorkersTerminated /\ report.written)

\* The run ended with no byte ever received (the peer closed every
\* connection at once): one worker exhausted its chunks, another fell behind.
C6_Witness ==
    /\ report.written
    /\ total_bytes = 0
    /\ \E w \in Workers : wpc[w] = "done" /\ wchunk[w] > Len(chunks(w))
    /\ \E w \in Workers : wpc[w] = "done" /\ wchunk[w] <= Len(chunks(w))


\* C10: for a request carrying a non-negative count N the responder's send
\* loop advances by at least one byte per pass and never past N, a responder
\* that ends without an I/O error has written exactly N bytes, the initiator
\* never counts more than N bytes, and it counts exactly N when the exchange
\* ends with no I/O error and no cancellation.
C10_ExactlyNBytes ==
    xN >= 0 =>
      /\ xsPc = "send" =>
            /\ xsBytesToSend = xN
            /\ xsSent <= xN
            /\ xsSent < xN => to_send(xsBytesToSend, xsSent) >= 1
      /\ (xsPc = "closed" /\ xcPc # "start" /\ xFault = {}) => xsSent = xN
      /\ xcRecvd <= xN
      /\ (xcPc = "closed" /\ xFault = {}) => xcRecvd = xN

\* A count above the payload size went through in full: the responder sent
\* in two passes, the initiator received in many.
C10_Witness ==
    /\ xN > PAYLOAD_MAX
    /\ xcPc = "closed" /\ xsPc = "closed" /\ xFault = {}
    /\ xcRecvd = xN /\ xsSent = xN

\* The rest of the run is untouched by a step of worker w.
OthersUntouched(w) ==
    /\ \A v \in Workers \ {w} : wpc'[v] = wpc[v] /\ wchunk'[v] = wchunk[v]
    /\ UNCHANGED <<mainVars, stop_playback, clockVars>>

\* C11: a failed exchange is never fatal.  A worker whose connect, send or
\* receive fails leaves the download block alive (for the update block, or
\* returns only because it has fallen behind); after an exchange that ended
\* short of size_bytes the update step moves the worker to the gate of its
\* next chunk (or ends it when that was its last chunk); no other worker
\* and no step of the main thread is affected.
C11_FailedExchangeNotFatal ==
    [][\A w \in Workers :
          /\ (/\ wpc[w] \in {"abr_cs", "recv_cs"}
              /\ has_duration(chunk(w))
              /\ wpc'[w] # wpc[w])
             => /\ wpc'[w] \in {"recv_lock", "update_lock", "done"}
                /\ wpc'[w] = "done" => fallen_behind(my_idx(w), active_video_index)
                /\ OthersUntouched(w)
          /\ (/\ wpc[w] = "update_cs"
              /\ wrecvd[w] < wsize[w]
              /\ wpc'[w] # wpc[w])
             => /\ wchunk'[w] = wchunk[w] + 1
                /\ wpc'[w] = IF wchunk[w] < Len(chunks(w)) THEN "gate_lock" ELSE "done"
                /\ OthersUntouched(w)]_vars

\* A worker waits at the gate of its second chunk after the exchange for a
\* well-formed first chunk brought nothing.
C11_Witness ==
    \E w \in Workers :
        /\ wpc[w] = "gate_lock" /\ wchunk[w] = 2
        /\ has_duration(chunks(w)[1]) /\ chunks(w)[1].video_duration_sec > 0
        /\ per_stream_bytes[Sid(streams[w])] = 0

\* C12: a malformed chunk is skipped individually.  No worker thread dies of
\* one, and the steps a worker takes on one (its duration missing or not
\* positive) change no shared state.
Malformed(ev) == ~has_duration(ev) \/ ev.video_duration_sec <= 0

C12_MalformedChunkSkipped ==
    /\ [](\A w \in Workers : wpc[w] # "crashed")
    /\ [][\A w \in Workers :
            (InCriticalSection(w) /\ Malformed(chunk(w)) /\ wpc'[w] # wpc[w])
                => UNCHANGED stateVars]_vars

\* The streams in the report's per_stream_avg_throughput_mbps, and their rates.
ReportedStreams == {report.per_stream_avg_throughput_mbps[i][1] :
                        i \in 1..Len(report.per_stream_avg_throughput_mbps)}
ReportedRates == {report.per_stream_avg_throughput_mbps[i][2] :
                      i \in 1..Len(report.per_stream_avg_throughput_mbps)}

\* C13: with at least one stream past the ghost filter the reported
\* fairness_index is above 0 and at most 1.0, and it is exactly 1.0 when all
\* the reported per-stream rates are equal.
C13_FairnessInUnitInterval ==
    (report.written /\ ReportedStreams # {}) =>
        /\ fl_positive(report.fairness_index)
        /\ fl_leq(report.fairness_index, FL_ONE)
        /\ Cardinality(ReportedRates) = 1 => report.fairness_index = FL_ONE

\* C14: the reported fairness_index is 1.0 with exactly one stream past the
\* ghost filter, and null (no number) with none.
NULL == <<>>

C14_FairnessConvention ==
    report.written =>
        /\ Cardinality(ReportedStreams) = 1 => report.fairness_index = FL_ONE
        /\ ReportedStreams = {} => report.fairness_index = NULL

\* C17: per_stream_avg_throughput_mbps holds exactly the stream ids whose
\* span from first to last credit is above 0.1 s and whose received bytes
\* are above 1000; a stream that never received a byte is not in it.
CreditSpan(s) ==
    IF \E i \in 1..Len(per_stream_first_ts) : per_stream_first_ts[i][1] = s
    THEN get(per_stream_last_ts, s, 0) - get(per_stream_first_ts, s, 0)
    ELSE 0

C15_EstimateInRange ==
    /\ EST_FLOOR <= app_bandwidth_est /\ app_bandwidth_est <= EST_CEILING
    /\ EST_FLOOR <= twin.app_bandwidth_est /\ twin.app_bandwidth_est <= EST_CEILING

\* A sample of 0 right after a new stall brought the estimate to the floor.
C15_Witness ==
    /\ fed > 0
    /\ tp_window[Len(tp_window)] = 0
    /\ last_stall_time = stall_time /\ stall_time > 0
    /\ app_bandwidth_est = EST_FLOOR

IsTick == clockPc = "tick" /\ clockPc' = "check"

\* C18: a tick, for the stream that is active after its possible switch,
\* either drains that stream's positive buffer to max(0, buffer - delta) and
\* leaves stall_time, or, the buffer being 0, adds delta to stall_time and
\* leaves the buffer; then it appends exactly one sample (sim_time, level of
\* the active buffer).
C18_TickDrainsOrStalls ==
    [][IsTick =>
        /\ IF buffers[active_base_id'] > 0
           THEN /\ buffers'[active_base_id'] =
                      (IF buffers[active_base_id'] - delta > 0
                       THEN buffers[active_base_id'] - delta ELSE 0)
                /\ stall_time' = stall_time
           ELSE /\ stall_time' = stall_time + delta
                /\ buffers'[active_base_id'] = buffers[active_base_id']
        /\ buffer_timeseries'.len = buffer_timeseries.len + 1
        /\ buffer_timeseries'.last = <<sim_time, buffers'[active_base_id']>>]_vars

\* A tick has stalled and a later one drained a buffer without emptying it.
C18_Witness ==
    /\ stall_time > 0
    /\ buffer_timeseries.len >= 2
    /\ buffer_timeseries.last[2] > 0
    /\ clockPc = "check"

\* C19: once the clock's time has reached the start of every stream up to
\* position k, fair scheduling makes position k active, unless the stop
\* signal ends the ticks first, and the index gets there one position at a
\* time.
Positions == 1..(Len(ScheduleCatchUp) - 1)

DueUpTo(k) ==
    /\ k < Len(stream_order)
    /\ active_video_index < k
    /\ \A j \in (active_video_index + 1)..k : last_real_time >= swipe_map[stream_order[j + 1]]

C19_TicksCatchUp ==
    /\ \A k \in Positions :
          (clockPc # "unborn" /\ DueUpTo(k)) ~> (active_video_index >= k \/ stop_playback)
    /\ [][active_video_index' # active_video_index
            => active_video_index' = active_video_index + 1]_vars

\* Two boundaries had passed at the first tick; the second tick reached the
\* last stream.
C19_Witness ==
    /\ Len(stream_order) = 3
    /\ active_video_index = 2
    /\ buffer_timeseries.len = 2
    /\ ~stop_playback

\* C20: a buffer decreases only in a tick of the clock and only if it is the
\* active stream's; it increases only in the update step of a worker of that
\* base_id whose transfer has ended with bytes received.
C20_BufferFrame ==
    [][\A b \in DOMAIN buffers :
          /\ buffers'[b] < buffers[b] =>
                (IsTick /\ lock = ClockThread /\ b = active_base_id')
          /\ buffers'[b] > buffers[b] =>
                \E w \in Workers :
                    /\ wpc[w] = "update_cs" /\ lock = WorkerThread(w)
                    /\ wpc'[w] # "update_cs"
                    /\ base_id(w) = b
                    /\ wrecvd[w] > 0]_vars

\* After the swipe the first video keeps what it had buffered while the
\* second one has been credited.
C20_Witness ==
    /\ active_video_index = 1
    /\ buffers[stream_order[1]] > 0
    /\ buffers[active_base_id] > 0

\* The program points from the ABR decision to the update block.
Transferring == {"abr_lock", "abr_cs", "recv_lock", "recv_cs", "update_lock", "update_cs"}

\* What a gate snapshot must show for the worker to go on.
Admitted(w) ==
    \/ /\ my_idx(w) = active_video_index
       /\ buffers[base_id(w)] < MAX_BUFFER_ACTIVE
    \/ /\ my_idx(w) = active_video_index + 1
       /\ Downloads(streams[w].events)[wchunk[w]].is_background
       /\ buffers[base_id(w)] < PREFETCH_TARGET

\* C21: a worker goes from the gate to the ABR decision and the transfer
\* only in a step of its gate check, made holding the lock, whose snapshot
\* shows it active with its buffer below MAX_BUFFER_ACTIVE, or exactly next
\* with a background chunk and its buffer below PREFETCH_TARGET; so a worker
\* two or more positions ahead, or next with an ordinary chunk, stays at the
\* gate.
C21_GateAdmits ==
    [][\A w \in Workers :
          (wpc'[w] \in Transferring /\ wpc[w] \notin Transferring)
              => (wpc[w] = "gate_cs" /\ lock = WorkerThread(w) /\ Admitted(w))]_vars

\* The next stream's worker has been let through for a prefetch chunk while
\* the worker two positions ahead, and another holding an ordinary chunk,
\* have had their gate checks and wait.
C21_Witness ==
    \E w \in Workers, v \in Workers :
        /\ wpc[w] = "abr_lock"
        /\ my_idx(w) = active_video_index + 1
        /\ buffers[base_id(w)] = PREFETCH_TARGET - 1
        /\ my_idx(v) = active_video_index + 2
        /\ is_background(v)
        /\ buffers[base_id(v)] < PREFETCH_TARGET
        /\ wpc[v] = "gate_lock"

\* C22: a worker whose gate check, made holding the lock, finds its position
\* behind the active index ends in that step: the step changes nothing of
\* the shared state, the chunk it stood at and those after it are never
\* transferred, and an ended worker never runs or holds the lock again.
C22_BehindAtGateEnds ==
    [][\A w \in Workers :
          /\ (wpc[w] = "gate_cs" /\ my_idx(w) < active_video_index /\ wpc'[w] # wpc[w])
                => (wpc'[w] = "done" /\ wchunk'[w] = wchunk[w] /\ UNCHANGED stateVars)
          /\ wpc[w] = "done"
                => /\ wpc'[w] = "done"
                   /\ lock' # WorkerThread(w)
                   /\ <<wchunk'[w], wrecvd'[w], wsize'[w]>> = <<wchunk[w], wrecvd[w], wsize[w]>>]_vars

\* A worker has ended at the gate of a chunk it never requested, after its
\* video was swiped away.
C22_Witness ==
    \E w \in Workers :
        /\ wpc[w] = "done"
        /\ wchunk[w] <= Len(chunks(w))
        /\ wsize[w] = 0
        /\ my_idx(w) < active_video_index
        /\ per_stream_bytes[Sid(streams[w])] = 0

\* C23: when the check inside the receive loop finds the worker's position
\* behind the active index, the worker ends in that step and what it had
\* received is dropped: total_bytes, per_stream_bytes, the buffers, the two
\* time series and the estimator's fields are all as they were.
C23_AbortDiscards ==
    [][\A w \in Workers :
          (wpc[w] = "recv_cs" /\ my_idx(w) < active_video_index /\ wpc'[w] # wpc[w])
              => /\ wpc'[w] = "done"
                 /\ UNCHANGED <<total_bytes, per_stream_bytes, buffers, throughputs,
                                bitrate_timeseries, app_bandwidth_est, tp_window,
                                last_stall_time, per_stream_first_ts, per_stream_last_ts>>]_vars

\* A worker has ended with part of a chunk received and none of it counted.
C23_Witness ==
    \E w \in Workers :
        /\ wpc[w] = "done"
        /\ 0 < wrecvd[w] /\ wrecvd[w] < wsize[w]
        /\ my_idx(w) < active_video_index
        /\ per_stream_bytes[Sid(streams[w])] = 0
        /\ buffers[base_id(w)] = 0

\* C24: once the active index is past a running worker's position, the
\* worker's next gate check or mid-transfer check ends it, and under fair
\* scheduling with socket calls that return it does end: it never stays
\* running for good.
C24_BehindWorkerEnds ==
    /\ <>[](\A w \in Workers : my_idx(w) < active_video_index => ~Running(w))
    /\ [][\A w \in Workers :
             (wpc[w] \in {"gate_cs", "recv_cs"} /\ my_idx(w) < active_video_index
                  /\ wpc'[w] # wpc[w]) => wpc'[w] = "done"]_vars

\* The playback clock is still running and a worker that fell behind has
\* ended before the chunk it stood at was finished.
C24_Witness ==
    \E w \in Workers :
        /\ wpc[w] = "done"
        /\ my_idx(w) < active_video_index
        /\ wchunk[w] <= Len(chunks(w))
        /\ ~stop_playback
        /\ clockPc # "done"

\* C25: in the update step of a chunk the expected size is the one computed
\* from the chunk's video_duration_sec and the chosen ladder bitrate, the
\* bytes received do not exceed it, and the playable time credited to the
\* worker's video is video_duration_sec * received / max(1, expected)
\* (to the model's resolution, rounded toward zero): positive only if bytes
\* were received, and never more than the chunk's video_duration_sec.
C25_CreditIsFraction ==
    [][\A w \in Workers :
          (wpc[w] = "update_cs" /\ wpc'[w] # wpc[w]) =>
              LET dur == Downloads(streams[w].events)[wchunk[w]].video_duration_sec
                  expected == (dur * wbitrate[w] * 25) \div 2
                  credited == buffers'[base_id(w)] - buffers[base_id(w)]
              IN /\ wbitrate[w] \in Range(BITRATE_LADDER)
                 /\ wsize[w] = expected
                 /\ 0 <= wrecvd[w] /\ wrecvd[w] <= Max(0, expected)
                 /\ credited * Max(1, expected) <= dur * wrecvd[w]
                 /\ dur * wrecvd[w] < (credited + 1) * Max(1, expected)
                 /\ credited > 0 => wrecvd[w] > 0
                 /\ credited <= Max(0, dur)]_vars

\* Half of video 0's only chunk arrived before the peer closed, and the
\* update credited part of the chunk's duration (no tick has drained it yet).
C25_Witness ==
    \E w \in Workers :
        /\ wchunk[w] > Len(chunks(w))
        /\ Len(chunks(w)) = 1
        /\ Len(throughputs) = 1
        /\ buffer_timeseries.len = 0
        /\ 0 < buffers[base_id(w)]
        /\ buffers[base_id(w)] < chunks(w)[1].video_duration_sec
        /\ 0 < per_stream_bytes[Sid(streams[w])]

\* What the update step of worker w's chunk records, with the lock held.
UpdateRecords(w) ==
    /\ lock = WorkerThread(w)
    /\ total_bytes' = total_bytes + wrecvd[w]
    /\ per_stream_bytes' = [per_stream_bytes EXCEPT ![Sid(streams[w])] = @ + wrecvd[w]]
    /\ Len(throughputs') = Len(throughputs) + 1
    /\ Len(bitrate_timeseries') = Len(bitrate_timeseries) + 1
    /\ bitrate_timeseries'[Len(bitrate_timeseries')] = wbitrate[w]
    /\ has_key(per_stream_last_ts', Sid(streams[w]))
    /\ tp_window' = push_window(tp_window, throughputs'[Len(throughputs')])
    /\ wchunk'[w] = wchunk[w] + 1

\* C26: every chunk whose transfer ends without the worker being cancelled,
\* with any number of bytes received, zero included, gets exactly one update
\* step, under the lock, that adds the bytes to total_bytes and to the
\* stream's counter, appends one throughput sample and one bitrate sample,
\* stamps the stream and feeds the sample to the estimator.
C26_UpdateOncePerChunk ==
    [][\A w \in Workers :
          (wpc[w] = "update_cs" /\ wpc'[w] # wpc[w]) => UpdateRecords(w)]_vars

\* The last n elements of a sequence.
LastN(s, n) == SubSeq(s, Len(s) - n + 1, Len(s))

\* A step in which the estimator ran: the caller appended its sample to
\* throughputs just before.
EstimatorRan == Len(throughputs') = Len(throughputs) + 1

\* C27: tp_window never holds more than TP_WINDOW_LEN samples and is always
\* the most recent min(n, TP_WINDOW_LEN) of the n samples fed so far, in
\* arrival order; and the estimate an update stores is the one computed with
\* safe_floor the minimum of the window that already holds the new sample.
C27_WindowAndFloor ==
    /\ [](/\ Len(tp_window) <= TP_WINDOW_LEN
          /\ tp_window = LastN(throughputs, Min(Len(throughputs), TP_WINDOW_LEN)))
    /\ [][EstimatorRan =>
            LET sample == throughputs'[Len(throughputs')]
                floor == SeqMin(tp_window')
                buf_active == buffers'[active_base_id']
            IN /\ floor <= sample
               /\ \A i \in 1..Len(tp_window') : floor <= tp_window'[i]
               /\ app_bandwidth_est' =
                      sanity_clamp(stall_clamp(
                          buffer_aware_est(app_bandwidth_est, floor, buf_active, sample),
                          sample, stall_time' > last_stall_time))]_vars

\* The window has turned over: more samples were fed than it holds, the
\* first one fed is gone, and the newest one is the smallest in the window.
C27_Witness ==
    /\ Len(throughputs) > TP_WINDOW_LEN
    /\ Len(tp_window) = TP_WINDOW_LEN
    /\ throughputs[1] # throughputs[2]
    /\ throughputs[1] \notin Range(tp_window)
    /\ tp_window[Len(tp_window)] = SeqMin(tp_window)
    /\ app_bandwidth_est < INITIAL_BANDWIDTH_EST

\* C28 as stated: whenever stall_time has grown since the previous estimator
\* update, the estimate the next update stores is at most 0.8 times the
\* sample passed to it.
C28_StallClamp ==
    [][(EstimatorRan /\ stall_time' > last_stall_time)
          => 10 * app_bandwidth_est' <= 8 * throughputs'[Len(throughputs')]]_vars

\* C28 as amended: whenever stall_time has grown since the previous
\* estimator update, the estimate the next update stores is at most the
\* larger of 0.8 times the sample and the estimate's floor of 0.1 Mbps
\* (the range clamp is applied last), and the stall is recorded as seen.
C28_StallClampThenFloor ==
    [][(EstimatorRan /\ stall_time' > last_stall_time)
          => /\ 10 * app_bandwidth_est' <= Max(10 * EST_FLOOR, 8 * throughputs'[Len(throughputs')])
             /\ last_stall_time' = stall_time']_vars

\* The first sample arrived after a stall and the estimate was cut to 0.8
\* times it, above the floor.
C28_Witness ==
    /\ Len(throughputs) = 1
    /\ last_stall_time > 0
    /\ last_stall_time = stall_time
    /\ app_bandwidth_est = (throughputs[1] * 8) \div 10
    /\ app_bandwidth_est > EST_FLOOR

\* C29: in every estimator update the EWMA factor (0.10 below 3 s, 0.20
\* below 10 s, else 0.30) and the risk multiplier (0.7 below 2 s, 0.85 below
\* 5 s, 1.0 below 12 s, else 1.1) are those of the active video's buffer at
\* the time of the update, whichever video the sample came from, and the
\* estimate stored is the two clamps applied to
\* multiplier * (0.5 * ((1 - factor) * previous + factor * sample) + 0.5 * safe_floor).
C29_FactorsFromActiveBuffer ==
    [][EstimatorRan =>
          LET level == buffers'[active_base_id']
              factor == IF level < 30 THEN 1 ELSE IF level < 100 THEN 2 ELSE 3
              multiplier == IF level < 20 THEN 70
                            ELSE IF level < 50 THEN 85
                            ELSE IF level < 120 THEN 100 ELSE 110
              sample == throughputs'[Len(throughputs')]
              ewma == ((10 - factor) * app_bandwidth_est + factor * sample) \div 10
              blended == (ewma + SeqMin(tp_window')) \div 2
              result == (blended * multiplier) \div 100
              after_stall == IF stall_time' > last_stall_time
                             THEN Min(result, (sample * 8) \div 10) ELSE result
          IN app_bandwidth_est' = Max(EST_FLOOR, Min(after_stall, EST_CEILING))]_vars

\* The first sample, 0.9 Mbps, came from the video that is not active and
\* whose buffer is empty, while the active one held 15 s: factor 0.30 and
\* multiplier 1.1 give 1.1 * (0.5 * (0.7 * 2.5 + 0.3 * 0.9) + 0.5 * 0.9) = 1.606.
C29_Witness ==
    /\ throughputs = <<900>>
    /\ buffers[active_base_id] = 150
    /\ \E b \in DOMAIN buffers : b # active_base_id /\ buffers[b] = 0
    /\ app_bandwidth_est = 1606

\* C30: whatever the estimate, the buffer levels and the activity flag, the
\* ABR decision is a rung of BITRATE_LADDER: the lowest one for a stream
\* that is not active while the active buffer is below PANIC_THRESHOLD, and
\* otherwise the highest rung not above the target, or the lowest rung when
\* every rung is above it, the target being 0.9 * estimate for an active
\* stream whose own buffer is at least 5 s and 0.5 * estimate for an active
\* stream below 5 s and for a stream that is not active.
C30_AbrPicksRung ==
    [][\A w \in Workers :
          (wpc[w] = "abr_cs" /\ wpc'[w] \in {"recv_lock", "update_lock"}) =>
              LET is_active == my_idx(w) = active_video_index
                  target10 == IF is_active /\ buffers[base_id(w)] >= 50
                              THEN 9 * app_bandwidth_est ELSE 5 * app_bandwidth_est
                  chosen == wbitrate'[w]
              IN /\ chosen \in Range(BITRATE_LADDER)
                 /\ wactive'[w] = is_active
                 /\ IF ~is_active /\ buffers[active_base_id] < PANIC_THRESHOLD
                    THEN chosen = BITRATE_LADDER[1]
                    ELSE /\ \A b \in Range(BITRATE_LADDER) :
                               10 * b <= target10 => b <= chosen
                         /\ \/ 10 * chosen <= target10
                            \/ /\ chosen = BITRATE_LADDER[1]
                               /\ \A b \in Range(BITRATE_LADDER) : 10 * b > target10]_vars

\* With the estimate at 10 Mbps the active stream, 5 s or more buffered, was
\* given the 8 Mbps rung (target 9) and a prefetching stream the 5 Mbps rung
\* (target 5).
C30_Witness ==
    /\ app_bandwidth_est = 10000
    /\ \E w \in Workers :
          /\ wpc[w] = "recv_lock" /\ wactive[w]
          /\ buffers[base_id(w)] >= 50
          /\ wbitrate[w] = 8000
    /\ \E v \in Workers :
          /\ wpc[v] = "recv_lock" /\ ~wactive[v]
          /\ wbitrate[v] = 5000

\* C31: a worker that is not active at its ABR snapshot, taken while the
\* active video's buffer is below PANIC_THRESHOLD, is given the lowest rung
\* of the ladder whatever the estimate, and the chunk it then requests has
\* the size of its video_duration_sec at that rung.
C31_PanicForcesLowestRung ==
    [][\A w \in Workers :
          (/\ wpc[w] = "abr_cs" /\ wpc'[w] \in {"recv_lock", "update_lock"}
           /\ my_idx(w) # active_video_index
           /\ buffers[active_base_id] < PANIC_THRESHOLD)
              => /\ ~wactive'[w]
                 /\ wbitrate'[w] = BITRATE_LADDER[1]
                 /\ wsize'[w] = (Downloads(streams[w].events)[wchunk[w]].video_duration_sec
                                     * BITRATE_LADDER[1] * 25) \div 2]_vars

\* With the estimate at its ceiling of 100 Mbps, a prefetching worker has
\* requested its chunk at the lowest rung because the active buffer is short.
C31_Witness ==
    /\ app_bandwidth_est = EST_CEILING
    /\ buffers[active_base_id] < PANIC_THRESHOLD
    /\ \E w \in Workers :
          /\ wpc[w] = "recv_lock"
          /\ my_idx(w) = active_video_index + 1
          /\ ~wactive[w]
          /\ wbitrate[w] = BITRATE_LADDER[1]
          /\ wsize[w] = size_bytes(duration(w), BITRATE_LADDER[1])

\* The worker whose locked update step this is, for video b.
Crediting(w, b) ==
    /\ lock = WorkerThread(w)
    /\ wpc[w] = "update_cs" /\ wpc'[w] # "update_cs"
    /\ base_id(w) = b
    /\ wrecvd[w] > 0

\* C32: every change of a buffer is one whole credit or one whole drain made
\* on its current value by the thread holding the lock: a worker's update
\* adds its chunk's credit to the buffer of its base_id (fragment workers of
\* one video add to the same buffer), the clock's tick takes from the active
\* video's buffer what it can drain, and no other step changes a buffer; so
\* each buffer is always the sum of its credits less the sum of its drains.
C32_BufferAccounting ==
    [][\A b \in DOMAIN buffers :
          IF \E w \in Workers : Crediting(w, b)
          THEN \E w \in Workers :
                  /\ Crediting(w, b)
                  /\ buffers'[b] = buffers[b]
                        + (Downloads(streams[w].events)[wchunk[w]].video_duration_sec
                               * wrecvd[w]) \div Max(1, wsize[w])
          ELSE IF lock = ClockThread /\ clockPc = "tick" /\ clockPc' # "tick"
                    /\ b = active_base_id'
               THEN buffers'[b] = buffers[b] - Min(buffers[b], delta)
               ELSE buffers'[b] = buffers[b]]_vars

\* Two fragment workers of one video have both credited its buffer, the
\* clock has drained it, and it holds what is left of the two credits.
C32_Witness ==
    \E w \in Workers, v \in Workers :
        /\ w # v
        /\ base_id(w) = base_id(v)
        /\ per_stream_bytes[Sid(streams[w])] > 0
        /\ per_stream_bytes[Sid(streams[v])] > 0
        /\ buffer_timeseries.len > 0
        /\ stall_time = 0
        /\ buffers[base_id(w)] > 20
        /\ buffers[base_id(w)] < 23

\* C33: in every state, and so in every state a thread sees while it holds
\* the lock, active_video_index is a position of stream_order and
\* active_base_id is the video at that position: the index and the id are
\* never out of step.
C33_IndexAndIdInStep ==
    /\ 0 <= active_video_index
    /\ active_video_index < Len(stream_order)
    /\ active_base_id = stream_order[active_video_index + 1]

\* A worker holds the lock after a swipe and finds the second video active
\* under both names.
C33_Witness ==
    /\ active_video_index = 1
    /\ active_base_id = stream_order[2]
    /\ active_base_id # stream_order[1]
    /\ \E w \in Workers : lock = WorkerThread(w) /\ InCriticalSection(w)

\* The video_duration_sec of the longest chunk in the schedule.
LongestChunk ==
    LET durations ==
            UNION {{IF has_duration(chunks(w)[i]) THEN chunks(w)[i].video_duration_sec ELSE 0 :
                       i \in 1..Len(chunks(w))} : w \in Workers} \cup {0}
    IN CHOOSE d \in durations : \A e \in durations : e <= d

\* C34: no video's buffer ever exceeds MAX_BUFFER_ACTIVE plus the
\* video_duration_sec of the longest chunk in the schedule, also when
\* several fragments share one base_id.
C34_BufferCeiling ==
    \A b \in DOMAIN buffers : buffers[b] <= MAX_BUFFER_ACTIVE + LongestChunk

\* C35: a worker whose position is behind the active index when it makes its
\* update step credits nothing: total_bytes, the per-stream byte counters
\* and the buffers stay as they were.
C35_NoCreditOnceBehind ==
    [][\A w \in Workers :
          (wpc[w] = "update_cs" /\ wpc'[w] # wpc[w] /\ my_idx(w) < active_video_index)
              => UNCHANGED <<total_bytes, per_stream_bytes, buffers>>]_vars

\* C36: stall_time never exceeds the time the clock has counted since the
\* start of the run (the sum of its tick deltas), and so the reported
\* rebuffering_ratio = stall_time / total_duration lies in [0, 1].
C36_StallWithinElapsed ==
    /\ 0 <= stall_time
    /\ stall_time <= last_real_time
    /\ report.written =>
          /\ 0 <= report.total_stalls
          /\ report.total_stalls <= report.total_duration

\* C37: last_stall_time never exceeds stall_time; the estimator update that
\* finds stall_time grown records it, so that after every update the two are
\* equal and the next update clamps only if stall_time has grown again: an
\* update that finds no new stall stores the estimate without the stall
\* clamp.
C37_StallClampOncePerGrowth ==
    /\ [](last_stall_time <= stall_time)
    /\ [][EstimatorRan =>
            /\ last_stall_time' = stall_time'
            /\ ~(stall_time' > last_stall_time) =>
                  app_bandwidth_est' =
                      sanity_clamp(buffer_aware_est(app_bandwidth_est, SeqMin(tp_window'),
                                                    buffers'[active_base_id'],
                                                    throughputs'[Len(throughputs')]))]_vars

\* After a stall, a second update found no new stall and stored an estimate
\* above 0.8 times its sample (and above the floor): the clamp was not applied
\* again.
C37_Witness ==
    /\ Len(throughputs) >= 2
    /\ stall_time > 0
    /\ last_stall_time = stall_time
    /\ 10 * app_bandwidth_est > 8 * throughputs[Len(throughputs)]
    /\ app_bandwidth_est > EST_FLOOR

\* C38: a worker takes the chunks of its schedule entry one at a time in
\* list order: its chunk index moves only in its update step and only to the
\* next chunk, it stays on the same chunk from the gate through the transfer
\* and while it waits at the gate, a gate check of an ordinary chunk whose
\* snapshot shows the stream not yet active leaves the worker waiting on
\* that chunk (so no later chunk is reached), and a gate check that lets the
\* worker through while its stream is ahead of the active index is of a
\* background chunk.
C38_ChunksInOrder ==
    [][\A w \in Workers :
          /\ wchunk'[w] \in {wchunk[w], wchunk[w] + 1}
          /\ wchunk'[w] # wchunk[w] => (wpc[w] = "update_cs" /\ wpc'[w] \in {"gate_lock", "done"})
          /\ (wpc[w] \in {"gate_lock", "gate_cs"} \cup (Transferring \ {"update_cs"}))
                => wchunk'[w] = wchunk[w]
          /\ (wpc[w] \in Transferring /\ wpc'[w] # wpc[w])
                => wpc'[w] \in Transferring \cup Terminated \cup {"gate_lock"}
          /\ (wpc[w] = "gate_cs" /\ wpc'[w] # wpc[w] /\ my_idx(w) > active_video_index)
                => /\ ~is_background(w) => wpc'[w] = "gate_lock"
                   /\ wpc'[w] # "gate_lock" => (wpc'[w] = "abr_lock" /\ is_background(w))]_vars

\* A worker that prefetched its background first chunk waits at the gate of
\* its ordinary second chunk, its stream still ahead of the active one.
C38_Witness ==
    \E w \in Workers :
        /\ my_idx(w) > active_video_index
        /\ wpc[w] = "gate_lock"
        /\ wchunk[w] = 2
        /\ ~is_background(w)
        /\ chunks(w)[1].is_background
        /\ per_stream_bytes[Sid(streams[w])] > 0

====
